---- MODULE Spec2Model ----
(***************************************************************************)
(* Planets-Time: the astronomical core (solar.js, planets.js).             *)
(*                                                                         *)
(*   SpecScan  - the three crossing finders of solar.js, one sample or     *)
(*               one bisection iteration per step.  The sampled value      *)
(*               function (altitude or illuminance minus target) is a      *)
(*               pure function of the instant; its value at an instant     *)
(*               is drawn when the code first evaluates it and remembered. *)
(***************************************************************************)
EXTENDS Integers, Sequences, FiniteSets, TLC

\* ------------------------------------------------------------------ bounds
\* The loop runs minutes = 0 .. 24*60; the model's day has MinutesPerDay minutes.
MinutesPerDay == 3
\* A Date holds whole milliseconds; getUTCSeconds() reads whole seconds.
MsPerSecond == 2
\* t = start + minutes * 60000: the model's minute has SecondsPerMinute seconds.
SecondsPerMinute == 2
\* for (let i = 0; i < 20; i++) in findApparentAltitudeCrossings.
ApparentIters == 3
\* for (let iter = 0; iter < 14; iter++) in the other two finders.
ElevationIters == 2

MsPerMinute == SecondsPerMinute * MsPerSecond
DayMs == MinutesPerDay * MsPerMinute

\* The sizes of the code itself, for the runs that keep them (fullSize).
\* getUTCSeconds(): 1000 ms to the second.
FullMsPerSecond == 1000
\* t = start + minutes * 60000
FullMsPerMinute == 60000
\* for (let i = 0; i < 20; i++)
FullApparentIters == 20
\* for (let iter = 0; iter < 14; iter++)
FullElevationIters == 14
\* In a full-size run the value changes sign once, at CrossStride * k ms.
CrossStride == 2969
MaxCrossStep == 60
CrossPoints == {CrossStride * k : k \in 1 .. MaxCrossStep}

Null == "null"
\* no instant: prevT, lo and hi before they are assigned (instants are >= 0)
NoInstant == 0 - 1
NoTangent == 0 - 1

\* ------------------------------------------------------------- JS numbers
\* A sampled difference h = value(t) - target, by what the code tests of it:
\* h === 0, h > 0; NaN fails both.
Diffs == {"neg", "zero", "pos", "nan"}

\* h > 0
GtZero(h) == h = "pos"

\* h <= 0 in place of h === 0
IsNotPositive(h) == h \in {"zero", "neg"}

\* h === 0
IsZero(h) == h = "zero"

\* A sign test by product, h * prev < 0, in place of the "> 0" comparison
CrossingByProduct(h, p) ==
    \/ h = "pos" /\ p = "neg"
    \/ h = "neg" /\ p = "pos"

\* The differences compared themselves, h !== prev
CrossingByValue(h, p) == h # p

\* The crossing test of the three finders: h > 0 !== prev > 0.
Crossing(h, p) == GtZero(h) # GtZero(p)

\* result.unshift(x) in place of push
Unshift(s, x) == <<x>> \o s

\* result.push(x)
Push(s, x) == Append(s, x)

Finders == {"apparent", "elevation", "illuminance"}

VARIABLES
    finder,     \* which of the three crossing finders is running
    pre1970,    \* the civil day lies before 1970-01-01 (negative time values)
    tangentAt,  \* the target is the day's maximum, attained at this key (or NoTangent)
    fullSize,   \* the minute, the second and the iteration counts have the code's sizes
    crossAt,    \* full-size runs: the instant from which the value has its later sign
    crossUp,    \* full-size runs: the value goes from negative to positive
    f,          \* the value function where it has been evaluated: key -> difference
    pc,         \* "scan", "bisect", "done"
    minutes,    \* the loop counter
    prev,       \* prev / prevAlt / prevDiff
    prevT,
    result,
    lo, hi, iter,
    returned    \* the returned array (empty until the finder returns)

scanVars == <<finder, pre1970, tangentAt, fullSize, crossAt, crossUp, f, pc, minutes, prev, prevT, result,
              lo, hi, iter, returned>>

VARIABLES
    sunPc,      \* "idle", "call", "done"
    sunIn,      \* the arguments of sunTimes and the runtime's time zone
    sunOut      \* the DayTimes returned

sunVars == <<sunPc, sunIn, sunOut>>

VARIABLES
    orbPc,      \* "idle", "call", "kepler", "return", "done"
    orbKey,     \* planetKey
    orbDay,     \* daysSinceJ2000(date), whole days
    orbM,       \* Mrad
    orbEcc,     \* e
    orbE,       \* E of solveKeplerE
    orbDE,      \* dE of the last iteration of solveKeplerE
    orbI,       \* the iterations of solveKeplerE run so far
    orbSolved,  \* solveKeplerE has been called
    orbOut      \* the value returned: <<>> is null, <<r>> the number r

orbVars ==
    <<orbPc, orbKey, orbDay, orbM, orbEcc, orbE, orbDE, orbI, orbSolved, orbOut>>

VARIABLES
    tgtPc,      \* "idle", "call", "done"
    tgtFn,      \* the function called
    tgtKey,     \* planetKey / key
    tgtDay,     \* daysSinceJ2000(date), whole days
    tgtAu,      \* planetAU / au, as a logarithm
    tgtOut      \* the target altitude returned: <<>> is null

tgtVars == <<tgtPc, tgtFn, tgtKey, tgtDay, tgtAu, tgtOut>>

VARIABLES
    luxPc,      \* "idle", "call", "lux", "done"
    luxPow,     \* the build of Math.pow: "v8" or "libm"
    luxAlt,     \* <<the altitude passed to earthIlluminanceLuxFromAltRad>>
    luxE,       \* <<the illuminance>> it returned, or the one asked about
    luxOut      \* illuminanceToAltitudeDeg of that illuminance: <<>> is null

luxVars == <<luxPc, luxPow, luxAlt, luxE, luxOut>>

calcVars == <<tgtVars, luxVars>>

VARIABLES
    nxtPc,      \* "idle", "loop", "done"
    nxtIn,      \* date, lat, lon and the runtime's time zone
    nxtTarget,  \* targetAltDeg: <<>> is null
    nxtNow,     \* new Date(), in ms from local noon of the query day
    nxtCross,   \* what findApparentAltitudeCrossings returns for day 0, 1, 2
    nxtD,       \* the loop counter d
    nxtOut      \* the value returned: <<>> is null

nxtVars == <<nxtPc, nxtIn, nxtTarget, nxtNow, nxtCross, nxtD, nxtOut>>

VARIABLES
    selPc,      \* "idle", "select", "alert", "done"
    selPlanet,  \* the key of the planet clicked
    selDay,     \* the date of the date picker
    selOverlay, \* targetAltDeg of the call made by selectPlanet
    selPanel    \* targetAltDeg of the call made by updatePanelsForSelection

selVars == <<selPc, selPlanet, selDay, selOverlay, selPanel>>

VARIABLES
    stateLat,               \* state.lat: <<>> is null
    stateLon,               \* state.lon
    statePlace,             \* state.place
    pendingCountryName,     \* state.pendingCountryName
    countryAutoAppliedOnce, \* state.countryAutoAppliedOnce
    countryByName,          \* state.countryByName: name -> centroid
    fetchPc,                \* fetchCountriesOnce: "idle", "pending", "done"
    locPc,                  \* init's getCurrentPosition: "idle", "asking", "done"
    geoInFlight,            \* reverseGeocode calls waiting for their response
    geoStarted,             \* reverseGeocode calls made so far
    autoApplyRuns,          \* silent applyCountrySelection calls made so far
    manualPick              \* the country picked last, if it was the last
                            \* location the user gave: <<>> is none

geoVars == <<stateLat, stateLon, statePlace, pendingCountryName,
             countryAutoAppliedOnce, countryByName, fetchPc, locPc,
             geoInFlight, geoStarted, autoApplyRuns, manualPick>>

appVars == <<nxtVars, selVars, geoVars>>

vars == <<scanVars, sunVars, orbVars, calcVars, appVars>>

\* solarApparentAltitudeDeg reads the instant through getUTCHours/Minutes/Seconds
\* (and the day of year): two instants in the same whole second give the same
\* value.  solarPosition reads the instant to the millisecond (toDays).
SecondMs == IF fullSize THEN FullMsPerSecond ELSE MsPerSecond

MinuteMs == IF fullSize THEN FullMsPerMinute ELSE MsPerMinute

Key(fn, t) == IF fn = "apparent" THEN t \div SecondMs ELSE t

\* The first instant read by key k.
KeyTime(fn, k) == IF fn = "apparent" THEN k * SecondMs ELSE k

\* The value of a full-size run at key k: one sign before crossAt, the other
\* from crossAt on.
SignAt(k) ==
    IF (KeyTime(finder, k) >= crossAt) = crossUp THEN "pos" ELSE "neg"

\* The values the difference can take at key k.
Range(k) ==
    IF fullSize THEN {SignAt(k)}
    ELSE IF tangentAt = NoTangent THEN Diffs
    ELSE IF k = tangentAt THEN {"zero"} ELSE {"neg", "zero"}

\* f extended by the evaluation of instant t with outcome v (v is forced when
\* the instant's key was evaluated before).
Evaluated(g, t, v) ==
    IF Key(finder, t) \in DOMAIN g
    THEN IF g[Key(finder, t)] = v THEN g ELSE [k \in {} |-> v]
    ELSE [k \in DOMAIN g \cup {Key(finder, t)} |->
            IF k = Key(finder, t) THEN v ELSE g[k]]

CanBe(g, t, v) ==
    /\ v \in Range(Key(finder, t))
    /\ Key(finder, t) \in DOMAIN g => g[Key(finder, t)] = v

\* new Date(x) keeps the integral part of x (TimeClip truncates toward zero).
\* Instants are offsets from local midnight `start`, which is a whole number
\* of seconds; before 1970 time values are negative and truncation rounds up.
DateOfHalf(sum) ==
    IF pre1970 THEN (sum + 1) \div 2 ELSE sum \div 2

\* new Date((lo.getTime() + hi.getTime()) / 2)
Mid(a, b) == DateOfHalf(a + b)

\* a full-size run with too few iterations
FullItersFew(fn) == IF fn = "apparent" THEN 9 ELSE 7

FullIters(fn) ==
    IF fn = "apparent" THEN FullApparentIters ELSE FullElevationIters

Iters(fn) ==
    IF fullSize THEN FullIters(fn)
    ELSE IF fn = "apparent" THEN ApparentIters ELSE ElevationIters

\* the branches of the bisection exchanged
OtherSide(hm, hlo) == GtZero(hm) # GtZero(hlo)

\* The bisection's test, hm > 0 === hlo > 0: the midpoint is on lo's side.
SameSide(hm, hlo) == GtZero(hm) = GtZero(hlo)

\* the scan left only once three results are held
LeavesScanAtThree(fn, res) == fn = "apparent" /\ Len(res) >= 3

\* if (result.length >= 2) break;  in findApparentAltitudeCrossings only
LeavesScan(fn, res) == fn = "apparent" /\ Len(res) >= 2

\* result.slice(0, 2)
Slice02(s) == IF Len(s) <= 2 THEN s ELSE SubSeq(s, 1, 2)

ScanStart ==
    /\ finder \in Finders
    /\ pre1970 \in BOOLEAN
    /\ fullSize = FALSE /\ crossAt = NoInstant /\ crossUp = FALSE
    /\ tangentAt \in {NoTangent} \cup
          (IF finder = "apparent" THEN 0 .. (DayMs \div MsPerSecond) ELSE {})
    /\ f = [k \in {} |-> "nan"]
    /\ pc = "scan"
    /\ minutes = 0
    /\ prev = Null
    /\ prevT = NoInstant
    /\ result = <<>>
    /\ lo = NoInstant
    /\ hi = NoInstant
    /\ iter = 0
    /\ returned = <<>>

\* A finder is called on a day whose minutes and seconds have the code's
\* sizes and whose value changes sign once.
FullStart ==
    /\ finder \in Finders
    /\ pre1970 \in BOOLEAN
    /\ tangentAt = NoTangent
    /\ fullSize = TRUE /\ crossAt \in CrossPoints /\ crossUp \in BOOLEAN
    /\ f = [k \in {} |-> "nan"]
    /\ pc = "scan"
    /\ minutes = 0
    /\ prev = Null
    /\ prevT = NoInstant
    /\ result = <<>>
    /\ lo = NoInstant
    /\ hi = NoInstant
    /\ iter = 0
    /\ returned = <<>>

\* One pass of the sampling loop body up to the crossing test
\* (solar.js 374-379, 188-195, 233-239).
Sample ==
    /\ pc = "scan"
    /\ minutes <= MinutesPerDay
    /\ LET t == minutes * MinuteMs IN
       \E h \in Diffs :
          /\ CanBe(f, t, h)
          /\ f' = Evaluated(f, t, h)
          /\ IF prev # Null /\ IsZero(h)
             THEN /\ result' = Push(result, t)
                  /\ prev' = h
                  /\ prevT' = t
                  /\ minutes' = minutes + 1
                  /\ UNCHANGED <<pc, lo, hi, iter>>
             ELSE IF prev # Null /\ Crossing(h, prev)
             THEN /\ lo' = prevT
                  /\ hi' = t
                  /\ iter' = 0
                  /\ pc' = "bisect"
                  /\ UNCHANGED <<result, prev, prevT, minutes>>
             ELSE /\ prev' = h
                  /\ prevT' = t
                  /\ minutes' = minutes + 1
                  /\ UNCHANGED <<pc, result, lo, hi, iter>>
    /\ UNCHANGED <<finder, pre1970, tangentAt, fullSize, crossAt, crossUp,
                   returned, sunVars, orbVars, calcVars, appVars>>

\* One iteration of the bisection loop (solar.js 383-391, 199-212, 243-252).
BisectStep ==
    /\ pc = "bisect"
    /\ iter < Iters(finder)
    /\ LET mid == Mid(lo, hi) IN
       \E hm \in Diffs :
          /\ CanBe(f, mid, hm)
          /\ f' = Evaluated(f, mid, hm)
          /\ LET hlo == f'[Key(finder, lo)] IN
             IF SameSide(hm, hlo)
             THEN lo' = mid /\ hi' = hi
             ELSE hi' = mid /\ lo' = lo
    /\ iter' = iter + 1
    /\ UNCHANGED <<finder, pre1970, tangentAt, fullSize, crossAt, crossUp,
                   pc, minutes, prev, prevT, result, returned, sunVars, orbVars, calcVars, appVars>>

\* After the bisection loop: push the bracket's midpoint; the apparent-altitude
\* finder leaves the scan once it holds two results (solar.js 392-397).
BisectEnd ==
    /\ pc = "bisect"
    /\ iter = Iters(finder)
    /\ result' = Push(result, Mid(lo, hi))
    /\ IF LeavesScan(finder, result')
       THEN /\ pc' = "done"
            /\ returned' = result'
            /\ UNCHANGED <<prev, prevT, minutes>>
       ELSE /\ pc' = "scan"
            /\ prev' = f[Key(finder, minutes * MinuteMs)]
            /\ prevT' = minutes * MinuteMs
            /\ minutes' = minutes + 1
            /\ UNCHANGED returned
    /\ UNCHANGED <<finder, pre1970, tangentAt, fullSize, crossAt, crossUp,
                   f, lo, hi, iter, sunVars, orbVars, calcVars, appVars>>

\* The loop condition fails: return result (solar.js 399) or
\* result.slice(0, 2) (solar.js 218, 258).
ScanReturn ==
    /\ pc = "scan"
    /\ minutes > MinutesPerDay
    /\ pc' = "done"
    /\ returned' = IF finder = "apparent" THEN result ELSE Slice02(result)
    /\ UNCHANGED <<finder, pre1970, tangentAt, fullSize, crossAt, crossUp,
                   f, minutes, prev, prevT, result, lo, hi, iter, sunVars, orbVars, calcVars, appVars>>

ScanNext == Sample \/ BisectStep \/ BisectEnd \/ ScanReturn

\* ================================================================ sunTimes
\* Fixed-point arithmetic: angles are whole millidegrees, sines and cosines
\* are scaled by TrigScale, the date is the whole number of hours from
\* J2000.0 (2000-01-01 12:00 UTC) to local noon of the civil day.
TrigScale == 10000

MdegPerDeg == 1000

HalfTurn == 180 * MdegPerDeg

FullTurn == 360 * MdegPerDeg

\* TrigScale * sin(k degrees), k = 0 .. 90
SinTab ==
    << 0, 175, 349, 523, 698, 872, 1045, 1219, 1392, 1564, 1736, 1908, 2079,
       2250, 2419, 2588, 2756, 2924, 3090, 3256, 3420, 3584, 3746, 3907,
       4067, 4226, 4384, 4540, 4695, 4848, 5000, 5150, 5299, 5446, 5592,
       5736, 5878, 6018, 6157, 6293, 6428, 6561, 6691, 6820, 6947, 7071,
       7193, 7314, 7431, 7547, 7660, 7771, 7880, 7986, 8090, 8192, 8290,
       8387, 8480, 8572, 8660, 8746, 8829, 8910, 8988, 9063, 9135, 9205,
       9272, 9336, 9397, 9455, 9511, 9563, 9613, 9659, 9703, 9744, 9781,
       9816, 9848, 9877, 9903, 9925, 9945, 9962, 9976, 9986, 9994, 9998,
       10000 >>

Abs(x) == IF x < 0 THEN 0 - x ELSE x

\* Math.sin on the first quadrant, linear between whole degrees
SinQ(q) ==
    LET k == q \div MdegPerDeg
        r == q % MdegPerDeg
    IN  IF k >= 90 THEN SinTab[91]
        ELSE SinTab[k + 1] + ((SinTab[k + 2] - SinTab[k + 1]) * r) \div MdegPerDeg

\* Math.sin
Sin(a) ==
    LET n == a % FullTurn IN
    IF n <= 90 * MdegPerDeg THEN SinQ(n)
    ELSE IF n <= HalfTurn THEN SinQ(HalfTurn - n)
    ELSE IF n <= 270 * MdegPerDeg THEN 0 - SinQ(n - HalfTurn)
    ELSE 0 - SinQ(FullTurn - n)

\* Math.cos
Cos(a) == Sin(a + 90 * MdegPerDeg)

\* NaN: a value no angle and no sine takes
NaN == 0 - 999999

\* x === NaN, which no value satisfies, in place of isNaN(x)
EqualsNaN(x) == FALSE

\* isNaN(x)
IsNaN(x) == x = NaN

\* x > y on JS numbers: false when either is NaN
Gt(x, y) == x # NaN /\ y # NaN /\ x > y

\* Math.asin on [0, 1]
AsinQ(x) ==
    IF x >= TrigScale THEN 90 * MdegPerDeg
    ELSE LET k == CHOOSE j \in 0 .. 89 : SinTab[j + 1] <= x /\ x < SinTab[j + 2]
         IN  k * MdegPerDeg
             + (MdegPerDeg * (x - SinTab[k + 1])) \div (SinTab[k + 2] - SinTab[k + 1])

\* Math.asin: NaN outside [-1, 1]
Asin(x) ==
    IF x = NaN \/ x > TrigScale \/ x < 0 - TrigScale THEN NaN
    ELSE IF x >= 0 THEN AsinQ(x) ELSE 0 - AsinQ(0 - x)

\* Math.acos: NaN outside [-1, 1]
Acos(x) ==
    IF x = NaN \/ x > TrigScale \/ x < 0 - TrigScale THEN NaN
    ELSE 90 * MdegPerDeg - Asin(x)

RECURSIVE SqrtBetween(_, _, _)
\* the largest r in a .. b with r * r <= n
SqrtBetween(n, a, b) ==
    IF a >= b THEN a
    ELSE LET m == (a + b + 1) \div 2 IN
         IF m * m <= n THEN SqrtBetween(n, m, b) ELSE SqrtBetween(n, a, m - 1)

\* Math.atan2(y, x), in (-180, 180] degrees
Atan2(y, x) ==
    LET r == SqrtBetween(x * x + y * y, 0, 2 * TrigScale)
        base == IF r = 0 THEN 0
                ELSE IF Abs(y) <= Abs(x)
                THEN AsinQ((Abs(y) * TrigScale) \div r)
                ELSE 90 * MdegPerDeg - AsinQ((Abs(x) * TrigScale) \div r)
    IN  IF x >= 0 THEN (IF y >= 0 THEN base ELSE 0 - base)
        ELSE (IF y >= 0 THEN HalfTurn - base ELSE base - HalfTurn)

ScanIdle ==
    /\ finder = "apparent" /\ pre1970 = FALSE /\ tangentAt = NoTangent
    /\ fullSize = FALSE /\ crossAt = NoInstant /\ crossUp = FALSE
    /\ f = [k \in {} |-> "nan"]
    /\ pc = "idle" /\ minutes = 0 /\ prev = Null /\ prevT = NoInstant
    /\ result = <<>> /\ lo = NoInstant /\ hi = NoInstant /\ iter = 0
    /\ returned = <<>>

\* ================================================ heliocentricDistanceAU
\* ---------------------------------------------------------------------
\* Numbers of the source are IEEE 754 doubles, sign, significand and
\* exponent.  A significand is a natural number written as its limbs in base
\* LimbBase, lowest first and without leading zeros; every operation rounds
\* its exact result to SigBits significant bits, ties to even.
\* ---------------------------------------------------------------------
LimbBits == 13

LimbBase == 2 ^ LimbBits

SigBits == 53

Limb(a, i) == IF i >= 1 /\ i <= Len(a) THEN a[i] ELSE 0

Top(S) == CHOOSE i \in S : \A j \in S : j <= i

Zeros(n) == [i \in 1 .. n |-> 0]

\* const x = ...; F(x): the value x is computed first, and once
Let(x, F(_)) == CASE x = x -> F(x)

\* the number of zero limbs above the highest nonzero limb of a
HighZeros(a) ==
    CHOOSE z \in 0 .. Len(a) :
        /\ z = Len(a) \/ a[Len(a) - z] # 0
        /\ \A j \in Len(a) - z + 1 .. Len(a) : a[j] = 0

\* the sequence t without its high zero limbs
TrimHigh(t) == SubSeq(t, 1, Len(t) - HighZeros(t))

\* the number with the limbs a: a as a sequence, without high zero limbs
NTrim(a) == TrimHigh(a \o <<>>)

\* a carry enters column k of the column sums u, each at most LimbBase + 1
CarryInto(u, k) ==
    \E j \in 1 .. k - 1 :
        /\ Limb(u, j) >= LimbBase
        /\ \A m \in j + 1 .. k - 1 : Limb(u, m) = LimbBase - 1

\* the column sums c, each below 2^30, with every column spread over three
Spread(c) ==
    NTrim([k \in 1 .. Len(c) + 2 |->
             (Limb(c, k) % LimbBase)
             + ((Limb(c, k - 1) \div LimbBase) % LimbBase)
             + (Limb(c, k - 2) \div (LimbBase * LimbBase))])

\* the column sums s, each below 2^15, with every column spread over two
Fold(s) ==
    NTrim([k \in 1 .. Len(s) + 1 |->
             (Limb(s, k) % LimbBase) + (Limb(s, k - 1) \div LimbBase)])

\* the limbs of the column sums u, each at most LimbBase + 1
Settle(u) ==
    IF \A j \in 1 .. Len(u) : u[j] < LimbBase THEN u
    ELSE NTrim([k \in 1 .. Len(u) + 1 |->
             (Limb(u, k) + IF CarryInto(u, k) THEN 1 ELSE 0) % LimbBase])

\* the number whose columns hold the sums c, each below 2^30
Normal(c) ==
    Let(NTrim(c), LAMBDA a : Let(Spread(a), LAMBDA s : Let(Fold(s), Settle)))

NAdd(a, b) ==
    IF a = <<>> THEN b
    ELSE IF b = <<>> THEN a
    ELSE Normal([k \in 1 .. (IF Len(a) > Len(b) THEN Len(a) ELSE Len(b)) |->
                   Limb(a, k) + Limb(b, k)])

\* a borrow leaves column k of the column differences d
BorrowInto(d, k) ==
    \E j \in 1 .. k - 1 :
        /\ Limb(d, j) < 0
        /\ \A m \in j + 1 .. k - 1 : Limb(d, m) = 0

\* the limbs of the column differences d of a number that is not negative
Borrow(d) ==
    NTrim([k \in 1 .. Len(d) |->
             (d[k] - IF BorrowInto(d, k) THEN 1 ELSE 0) % LimbBase])

\* a - b for a >= b
NSub(a, b) ==
    IF b = <<>> THEN a ELSE Borrow(NTrim([k \in 1 .. Len(a) |-> a[k] - Limb(b, k)]))

\* the highest limb in which a and b of the same length differ
TopDiffer(a, b) ==
    CHOOSE i \in 1 .. Len(a) :
        a[i] # b[i] /\ \A j \in i + 1 .. Len(a) : a[j] = b[j]

\* -1, 0, 1 as a < b, a = b, a > b
NCmp(a, b) ==
    IF Len(a) # Len(b) THEN (IF Len(a) > Len(b) THEN 1 ELSE 0 - 1)
    ELSE IF a = b THEN 0
    ELSE IF a[TopDiffer(a, b)] > b[TopDiffer(a, b)] THEN 1 ELSE 0 - 1

\* a * d for d < 2^17
NMulSmall(a, d) ==
    IF a = <<>> THEN a ELSE Normal([k \in 1 .. Len(a) |-> a[k] * d])

\* the limbs of a above its lowest z
DropLow(a, z) == SubSeq(a, z + 1, Len(a))

\* the number of zero limbs below the lowest nonzero limb of a # 0
LowZeros(a) == (CHOOSE i \in 1 .. Len(a) : a[i] # 0 /\ \A j \in 1 .. i - 1 : a[j] = 0) - 1

\* column k of a * b for a of at most ten limbs
Column(a, b, k) ==
    Limb(a, 1) * Limb(b, k) + Limb(a, 2) * Limb(b, k - 1)
    + Limb(a, 3) * Limb(b, k - 2) + Limb(a, 4) * Limb(b, k - 3)
    + Limb(a, 5) * Limb(b, k - 4) + Limb(a, 6) * Limb(b, k - 5)
    + Limb(a, 7) * Limb(b, k - 6) + Limb(a, 8) * Limb(b, k - 7)
    + Limb(a, 9) * Limb(b, k - 8) + Limb(a, 10) * Limb(b, k - 9)

\* x * y * LimbBase^z for x # 0 of at most ten limbs and y # 0
Product(x, y, z) ==
    Zeros(z) \o Normal([k \in 1 .. Len(x) + Len(y) |-> Column(x, y, k)])

\* a * b for a # 0 and b # 0 without low zero limbs, one of them of at most
\* ten limbs
Times(a, b, z) ==
    Product(IF Len(a) <= Len(b) THEN a ELSE b, IF Len(a) <= Len(b) THEN b ELSE a, z)

\* a * b, the shorter of them of at most ten limbs once its low zero limbs
\* are set aside
NMul(a, b) ==
    IF a = <<>> \/ b = <<>> THEN <<>>
    ELSE Times(DropLow(a, LowZeros(a)), DropLow(b, LowZeros(b)),
               LowZeros(a) + LowZeros(b))

\* a * 2^k
NShl(a, k) ==
    IF a = <<>> THEN a
    ELSE LET r == 2 ^ (k % LimbBits)
         IN  Zeros(k \div LimbBits)
             \o NTrim([i \in 1 .. Len(a) + 1 |->
                         ((Limb(a, i) * r) % LimbBase)
                         + ((Limb(a, i - 1) * r) \div LimbBase)])

\* a \div 2^k
NShr(a, k) ==
    LET q == k \div LimbBits
        r == 2 ^ (k % LimbBits)
    IN  IF q >= Len(a) THEN <<>>
        ELSE NTrim([i \in 1 .. Len(a) - q |->
                      (a[q + i] \div r) + (Limb(a, q + i + 1) % r) * (LimbBase \div r)])

\* bit k of a, bit 0 the lowest
NBit(a, k) == (Limb(a, k \div LimbBits + 1) \div 2 ^ (k % LimbBits)) % 2

\* the k lowest bits of a are 0
NLowZero(a, k) ==
    /\ \A i \in 1 .. k \div LimbBits : Limb(a, i) = 0
    /\ Limb(a, k \div LimbBits + 1) % 2 ^ (k % LimbBits) = 0

\* the number of bits of a limb
BitLen(v) == CHOOSE n \in 0 .. LimbBits : v < 2 ^ n /\ (n = 0 \/ v >= 2 ^ (n - 1))

\* the number of bits of a
NBitLen(a) ==
    IF a = <<>> THEN 0 ELSE LimbBits * (Len(a) - 1) + BitLen(a[Len(a)])

RECURSIVE Fit(_, _, _)
\* the largest digit up to hat whose multiple of b is at most cur
Fit(cur, b, hat) ==
    IF NCmp(NMulSmall(b, hat), cur) <= 0 THEN hat ELSE Fit(cur, b, hat - 1)

\* the digit of cur \div b for cur < b * LimbBase and b of n limbs, the top
\* one at least LimbBase / 2: the estimate from the leading limbs is not too
\* small
QuotientDigit(cur, b, n) ==
    IF NCmp(cur, b) < 0 THEN 0
    ELSE Fit(cur, b,
             IF (Limb(cur, n + 1) * LimbBase + Limb(cur, n)) \div b[n] > LimbBase - 1
             THEN LimbBase - 1
             ELSE (Limb(cur, n + 1) * LimbBase + Limb(cur, n)) \div b[n])

\* cur with d times b taken from it: <<d, remainder>>
Take(cur, b, d) == <<d, IF d = 0 THEN cur ELSE NSub(cur, NMulSmall(b, d))>>

\* one step of the long division by b: the limb v is brought down to the
\* remainder rem; <<digit, remainder>>
DivStep(rem, v, b) ==
    Let(NTrim(<<v>> \o rem), LAMBDA cur : Take(cur, b, QuotientDigit(cur, b, Len(b))))

RECURSIVE DivFrom(_, _, _, _, _)
\* the long division of an by bn once the limbs i down to j of an are
\* brought down, the highest first, from st = <<digits of the quotient,
\* lowest first, remainder>>
DivFrom(an, bn, i, j, st) ==
    CASE i < j -> st
      [] i = j -> Let(DivStep(st[2], an[i], bn),
                      LAMBDA s : <<<<s[1]>> \o st[1], s[2]>>)
      [] OTHER -> Let(DivFrom(an, bn, i, (i + j + 1) \div 2, st),
                      LAMBDA high : DivFrom(an, bn, (i + j + 1) \div 2 - 1, j, high))

\* <<an \div bn, an % bn>> for bn > 0 with its top limb at least LimbBase / 2:
\* the limbs of an above the lowest Len(an) - Len(bn) + 1 are less than bn
LongDiv(an, bn) ==
    IF Len(an) < Len(bn) THEN <<<<>>, an>>
    ELSE DivFrom(an, bn, Len(an) - Len(bn) + 1, 1,
                 <<<<>>, NTrim(DropLow(an, Len(an) - Len(bn) + 1))>>)

\* <<a \div b, a % b>> for b > 0, both scaled for the top limb of the divisor
\* to be at least LimbBase / 2
Scaled(a, b, sh) ==
    Let(LongDiv(NShl(a, sh), NShl(b, sh)), LAMBDA st : <<NTrim(st[1]), NShr(st[2], sh)>>)

\* <<a \div b, a % b>> for b > 0
NDivMod(a, b) == Scaled(a, b, LimbBits - BitLen(b[Len(b)]))

\* the number of up to three limbs as an integer
NToInt(a) == Limb(a, 1) + LimbBase * Limb(a, 2) + LimbBase * LimbBase * Limb(a, 3)

\* the limbs of n >= 0
NFromInt(n) ==
    NTrim(<<n % LimbBase, (n \div LimbBase) % LimbBase,
            n \div (LimbBase * LimbBase)>>)

\* a Number: kind "num", "inf" or "nan"; s is 1 or -1; the magnitude of a
\* "num" is m * 2^e with m of SigBits bits, or 0 with m = <<>>.  The two zeros
\* of a double are one zero here (the source never divides by a signed zero
\* whose sign it then reads), and the exponent is not bounded: the source
\* computes no number beyond the range of the normal doubles
Num(s, m, e) ==
    IF m = <<>> THEN [k |-> "num", s |-> 1, m |-> m, e |-> 0]
    ELSE [k |-> "num", s |-> s, m |-> m, e |-> e]

DNaN == [k |-> "nan", s |-> 1, m |-> <<>>, e |-> 0]

DInf(s) == [k |-> "inf", s |-> s, m |-> <<>>, e |-> 0]

DZero == Num(1, <<>>, 0)

IsZeroD(x) == x.k = "num" /\ x.m = <<>>

\* the double s * q * 2^e for q of SigBits bits, or q = 2^SigBits after a
\* rounding up
Carried(s, q, e) ==
    IF NBitLen(q) > SigBits THEN Num(s, NShr(q, 1), e + 1) ELSE Num(s, q, e)

\* q, or the next number
RoundUp(q, up) == IF up THEN NAdd(q, <<1>>) ELSE q

\* the double nearest to s * a * 2^e for a with sh bits more than SigBits,
\* ties to even; sticky tells that the exact value lies above a * 2^e
RoundAt(s, a, e, sh, sticky) ==
    IF sh <= 0 THEN Num(s, NShl(a, 0 - sh), e + sh)
    ELSE Carried(s,
                 RoundUp(NShr(a, sh),
                         /\ NBit(a, sh - 1) = 1
                         /\ (sticky \/ ~NLowZero(a, sh - 1) \/ NBit(a, sh) = 1)),
                 e + sh)

\* the double nearest to s * a * 2^e: a rounded to SigBits significant bits,
\* ties to even
RoundSig(s, a, e, sticky) ==
    IF a = <<>> THEN DZero ELSE RoundAt(s, a, e, NBitLen(a) - SigBits, sticky)

\* the double of a whole number
DInt(n) ==
    IF n < 0 THEN RoundSig(0 - 1, NFromInt(0 - n), 0, FALSE)
    ELSE RoundSig(1, NFromInt(n), 0, FALSE)

\* the double nearest to s * num / den from the quotient of num * 2^t
QuotientAt(s, num, den, t, e) ==
    Let(NDivMod(NShl(num, t), den),
        LAMBDA qr : RoundSig(s, qr[1], e - t, qr[2] # <<>>))

\* the double nearest to s * (num / den) * 2^e: the quotient is taken with
\* at least two bits more than SigBits
Quotient(s, num, den, e) ==
    QuotientAt(s, num, den,
               IF SigBits + 3 - (NBitLen(num) - NBitLen(den)) > 0
               THEN SigBits + 3 - (NBitLen(num) - NBitLen(den)) ELSE 0,
               e)

\* 10^e for e up to 18
NPow10(e) ==
    IF e <= 9 THEN NFromInt(10 ^ e)
    ELSE NMul(NFromInt(10 ^ 9), NFromInt(10 ^ (e - 9)))

\* a decimal literal of the source, s * (high * 10^9 + low) * 10^-e: the double
\* nearest to its decimal value
Dec(s, high, low, e) ==
    Quotient(s, NAdd(NMul(NFromInt(high), NFromInt(10 ^ 9)), NFromInt(low)),
             NPow10(e), 0)

\* -x
DNeg(x) == IF x.k = "nan" \/ IsZeroD(x) THEN x ELSE [x EXCEPT !.s = 0 - x.s]

\* Math.abs(x)
DAbs(x) == [x EXCEPT !.s = 1]

\* the exact a - b of two magnitudes with the signs sa and sb, c = NCmp(a, b)
Differ(sa, a, sb, b, c) ==
    IF c = 0 THEN <<1, <<>>>>
    ELSE IF c > 0 THEN <<sa, NSub(a, b)>>
    ELSE <<sb, NSub(b, a)>>

\* the exact sum of sa * a and sb * b: <<sign, magnitude>>
Sum(sa, a, sb, b) ==
    IF sa = sb THEN <<sa, NAdd(a, b)>> ELSE Differ(sa, a, sb, b, NCmp(a, b))

\* the double nearest to x + y for x # 0 and y # 0, both in units of 2^e
Aligned(x, y, e) ==
    Let(Sum(x.s, NShl(x.m, x.e - e), y.s, NShl(y.m, y.e - e)),
        LAMBDA v : RoundSig(v[1], v[2], e, FALSE))

\* x + y
DAdd(x, y) ==
    CASE x.k = "nan" \/ y.k = "nan" -> DNaN
      [] x.k = "inf" -> IF y.k = "inf" /\ y.s # x.s THEN DNaN ELSE x
      [] y.k = "inf" -> y
      [] IsZeroD(x) -> y
      [] IsZeroD(y) -> x
      [] OTHER -> Aligned(x, y, IF x.e < y.e THEN x.e ELSE y.e)

\* x - y
DSub(x, y) == DAdd(x, DNeg(y))

\* x * y
DMul(x, y) ==
    CASE x.k = "nan" \/ y.k = "nan" -> DNaN
      [] x.k = "inf" \/ y.k = "inf" ->
           IF IsZeroD(x) \/ IsZeroD(y) THEN DNaN ELSE DInf(x.s * y.s)
      [] OTHER -> RoundSig(x.s * y.s, NMul(x.m, y.m), x.e + y.e, FALSE)

\* x / y
DDiv(x, y) ==
    CASE x.k = "nan" \/ y.k = "nan" -> DNaN
      [] x.k = "inf" -> IF y.k = "inf" THEN DNaN ELSE DInf(x.s * y.s)
      [] y.k = "inf" -> DZero
      [] IsZeroD(y) -> IF IsZeroD(x) THEN DNaN ELSE DInf(x.s)
      [] IsZeroD(x) -> DZero
      [] OTHER -> Quotient(x.s * y.s, x.m, y.m, x.e - y.e)

\* the place of a number in the order of the numbers of its sign: 2 for an
\* infinity, 0 for zero, 1 otherwise
Rank(v) == IF v.k = "inf" THEN 2 * v.s ELSE IF v.m = <<>> THEN 0 ELSE v.s

\* |x| < |y| for two "num" that are not zero
Below(x, y) == x.e < y.e \/ (x.e = y.e /\ NCmp(x.m, y.m) < 0)

\* x < y; false when either is NaN
DLt(x, y) ==
    /\ x.k # "nan" /\ y.k # "nan"
    /\ \/ Rank(x) < Rank(y)
       \/ Rank(x) = Rank(y) /\ Rank(x) = 1 /\ Below(x, y)
       \/ Rank(x) = Rank(y) /\ Rank(x) = 0 - 1 /\ Below(y, x)

\* the double with the sign s, the high word (its sign bit left out) and
\* the low word high * 2^16 + low: the biased exponent lies above the 20
\* high bits of the significand
Words(s, word, high, low) ==
    Num(s,
        NAdd(NShl(NFromInt(2 ^ 20 + (word % 2 ^ 20)), 32),
             NAdd(NShl(NFromInt(high), 16), NFromInt(low))),
        word \div 2 ^ 20 - 1075)

\* the high word of |x|
HighWord(x) ==
    IF IsZeroD(x) THEN 0
    ELSE (x.e + 1075) * 2 ^ 20 + (NToInt(NShr(x.m, 32)) - 2 ^ 20)

\* (int) x for |x| < 2^31
TruncInt(x) ==
    IF IsZeroD(x) THEN 0
    ELSE x.s * NToInt(IF x.e >= 0 THEN NShl(x.m, x.e) ELSE NShr(x.m, 0 - x.e))

\* Math.sin and Math.cos are the engine's: V8 computes them as fdlibm does
\* (src/base/ieee754.cc), in doubles, and so does the model.  The constants
\* of __kernel_sin, __kernel_cos, __ieee754_rem_pio2 and __kernel_rem_pio2
\* (PIo2[0] to PIo2[4]) by their words: <<sign, high word, low word in two
\* halves>>
FdWords ==
    [half |-> <<1, \h3FE00000, \h0000, \h0000>>, one |-> <<1, \h3FF00000, \h0000, \h0000>>,
     S1 |-> <<0 - 1, \h3FC55555, \h5555, \h5549>>, S2 |-> <<1, \h3F811111, \h1110, \hF8A6>>,
     S3 |-> <<0 - 1, \h3F2A01A0, \h19C1, \h61D5>>, S4 |-> <<1, \h3EC71DE3, \h57B1, \hFE7D>>,
     S5 |-> <<0 - 1, \h3E5AE5E6, \h8A2B, \h9CEB>>, S6 |-> <<1, \h3DE5D93A, \h5ACF, \hD57C>>,
     C1 |-> <<1, \h3FA55555, \h5555, \h554C>>, C2 |-> <<0 - 1, \h3F56C16C, \h16C1, \h5177>>,
     C3 |-> <<1, \h3EFA01A0, \h19CB, \h1590>>, C4 |-> <<0 - 1, \h3E927E4F, \h809C, \h52AD>>,
     C5 |-> <<1, \h3E21EE9E, \hBDB4, \hB1C4>>, C6 |-> <<0 - 1, \h3DA8FAE9, \hBE88, \h38D4>>,
     invpio2 |-> <<1, \h3FE45F30, \h6DC9, \hC883>>, pio2_1 |-> <<1, \h3FF921FB, \h5440, \h0000>>,
     pio2_1t |-> <<1, \h3DD0B461, \h1A62, \h6331>>, pio2_2 |-> <<1, \h3DD0B461, \h1A60, \h0000>>,
     pio2_2t |-> <<1, \h3BA3198A, \h2E03, \h7073>>, pio2_3 |-> <<1, \h3BA3198A, \h2E00, \h0000>>,
     pio2_3t |-> <<1, \h397B839A, \h2520, \h49C1>>, PIo2_0 |-> <<1, \h3FF921FB, \h4000, \h0000>>,
     PIo2_1 |-> <<1, \h3E74442D, \h0000, \h0000>>, PIo2_2 |-> <<1, \h3CF84698, \h8000, \h0000>>,
     PIo2_3 |-> <<1, \h3B78CC51, \h6000, \h0000>>, PIo2_4 |-> <<1, \h39F01B83, \h8000, \h0000>>,
     two |-> <<1, \h40000000, \h0000, \h0000>>, three |-> <<1, \h40080000, \h0000, \h0000>>,
     bp1 |-> <<1, \h3FF80000, \h0000, \h0000>>, third |-> <<1, \h3FD55555, \h5555, \h5555>>,
     o_threshold |-> <<1, \h40862E42, \hFEFA, \h39EF>>, u_threshold |-> <<0 - 1, \h40874910, \hD52D, \h3051>>,
     ln2HI |-> <<1, \h3FE62E42, \hFEE0, \h0000>>, ln2LO |-> <<1, \h3DEA39EF, \h3579, \h3C76>>,
     invln2 |-> <<1, \h3FF71547, \h652B, \h82FE>>, P1 |-> <<1, \h3FC55555, \h5555, \h553E>>,
     P2 |-> <<0 - 1, \h3F66C16C, \h16BE, \hBD93>>, P3 |-> <<1, \h3F11566A, \hAF25, \hDE2C>>,
     P4 |-> <<0 - 1, \h3EBBBD41, \hC5D2, \h6BF1>>, P5 |-> <<1, \h3E663769, \h72BE, \hA4D0>>,
     E |-> <<1, \h4005BF0A, \h8B14, \h5769>>, Lg1 |-> <<1, \h3FE55555, \h5555, \h5593>>,
     Lg2 |-> <<1, \h3FD99999, \h9997, \hFA04>>, Lg3 |-> <<1, \h3FD24924, \h9422, \h9359>>,
     Lg4 |-> <<1, \h3FCC71C5, \h1D8E, \h78AF>>, Lg5 |-> <<1, \h3FC74664, \h96CB, \h03DE>>,
     Lg6 |-> <<1, \h3FC39A09, \hD078, \hC69F>>, Lg7 |-> <<1, \h3FC2F112, \hDF3E, \h5244>>,
     pio2_hi |-> <<1, \h3FF921FB, \h5444, \h2D18>>, pio2_lo |-> <<1, \h3C91A626, \h3314, \h5C07>>,
     pio4_hi |-> <<1, \h3FE921FB, \h5444, \h2D18>>, pS0 |-> <<1, \h3FC55555, \h5555, \h5555>>,
     pS1 |-> <<0 - 1, \h3FD4D612, \h03EB, \h6F7D>>, pS2 |-> <<1, \h3FC9C155, \h0E88, \h4455>>,
     pS3 |-> <<0 - 1, \h3FA48228, \hB568, \h8F3B>>, pS4 |-> <<1, \h3F49EFE0, \h7501, \hB288>>,
     pS5 |-> <<1, \h3F023DE1, \h0DFD, \hF709>>, qS1 |-> <<0 - 1, \h40033A27, \h1C8A, \h2D4B>>,
     qS2 |-> <<1, \h40002AE5, \h9C59, \h8AC8>>, qS3 |-> <<0 - 1, \h3FE6066C, \h1B8D, \h0159>>,
     qS4 |-> <<1, \h3FB3B8C5, \hB12E, \h9282>>, dp_h1 |-> <<1, \h3FE2B803, \h4000, \h0000>>,
     dp_l1 |-> <<1, \h3E4CFDEB, \h43CF, \hD006>>, L1 |-> <<1, \h3FE33333, \h3333, \h3303>>,
     L2 |-> <<1, \h3FDB6DB6, \hDB6F, \hABFF>>, L3 |-> <<1, \h3FD55555, \h518F, \h264D>>,
     L4 |-> <<1, \h3FD17460, \hA91D, \h4101>>, L5 |-> <<1, \h3FCD864A, \h93C9, \hDB65>>,
     L6 |-> <<1, \h3FCA7E28, \h4A45, \h4EEF>>, lg2 |-> <<1, \h3FE62E42, \hFEFA, \h39EF>>,
     lg2_h |-> <<1, \h3FE62E43, \h0000, \h0000>>, lg2_l |-> <<0 - 1, \h3E205C61, \h0CA8, \h6C39>>,
     ovt |-> <<1, \h3C971547, \h652B, \h82FE>>, cp |-> <<1, \h3FEEC709, \hDC3A, \h03FD>>,
     cp_h |-> <<1, \h3FEEC709, \hE000, \h0000>>, cp_l |-> <<0 - 1, \h3E3E2FE0, \h145B, \h01F5>>]

\* the constants as doubles, by name
FdConst ==
    [name \in DOMAIN FdWords |->
        Let(FdWords[name], LAMBDA w : Words(w[1], w[2], w[3], w[4]))]

\* qx of __kernel_cos, about |x| / 4: 0.28125 for |x| > 0.78125, else the
\* double with the high word of |x| less 0x00200000 and the low word 0
CosQx(x) ==
    IF HighWord(x) > \h3FE90000 THEN Words(1, \h3FD20000, 0, 0)
    ELSE Num(1, NShl(NShr(x.m, 32), 32), x.e - 2)

RECURSIVE NSqrtFrom(_, _)
\* the whole part of the square root of a, by Newton's steps down from r
NSqrtFrom(a, r) ==
    Let(NShr(NAdd(r, NDivMod(a, r)[1]), 1), LAMBDA next :
        IF NCmp(next, r) >= 0 THEN r ELSE NSqrtFrom(a, next))

\* the double nearest to the square root of a * 2^e for an even e and a of
\* 111 or 112 bits
RootOf(a, e) ==
    Let(NSqrtFrom(a, NShl(<<1>>, 56)),
        LAMBDA r : RoundSig(1, r, e \div 2, NCmp(NMul(r, r), a) # 0))

\* Math.sqrt(x): the nearest double
DSqrt(x) ==
    IF x.k = "nan" \/ (x.s < 0 /\ ~IsZeroD(x)) THEN DNaN
    ELSE IF x.k = "inf" \/ IsZeroD(x) THEN x
    ELSE IF x.e % 2 = 0 THEN RootOf(NShl(x.m, 58), x.e - 58)
    ELSE RootOf(NShl(x.m, 59), x.e - 59)

\* x with the low word 0
HighPart(x) == IF x.k # "num" THEN x ELSE Num(x.s, NShl(NShr(x.m, 32), 32), x.e)

\* x * 2^n: below 2^-1022 the doubles lie 2^-1074 apart
Scalb(x, n) ==
    IF x.k # "num" \/ IsZeroD(x) THEN x
    ELSE IF x.e + n < 0 - 1074
    THEN Let(RoundAt(x.s, x.m, x.e + n, 0 - 1074 - (x.e + n), FALSE),
             LAMBDA low : RoundSig(low.s, low.m, low.e, FALSE))
    ELSE Num(x.s, x.m, x.e + n)

\* the whole number nearest to z that pow takes from it: 0 for |z| <= 0.5
\* by its high word, else |z| with the low word 0 and a half more, cut to
\* a whole number, with the sign of z
Nearest(z) ==
    IF z.k # "num" \/ HighWord(z) <= \h3FE00000 THEN DZero
    ELSE DInt(z.s * TruncInt(DAdd(DAbs(HighPart(z)), FdConst.half)))

\* one step of a computation in doubles, <<name of the result, operation,
\* names of the operands>>: "=" copies the first operand, "int" is
\* (double)(int) of it, "qx" the qx of __kernel_cos for it, "hi" the
\* operand with the low word 0, "scalb" the first operand times two to the
\* power of the second and "near" the whole number pow takes from it
Arith(op, x, y) ==
    CASE op = "+" -> DAdd(x, y)
      [] op = "-" -> DAdd(x, DNeg(y))
      [] op = "*" -> DMul(x, y)
      [] op = "/" -> DDiv(x, y)
      [] op = "=" -> x
      [] op = "int" -> DInt(TruncInt(x))
      [] op = "qx" -> CosQx(x)
      [] op = "sqrt" -> DSqrt(x)
      [] op = "hi" -> HighPart(x)
      [] op = "abs" -> DAbs(x)
      [] op = "scalb" -> Scalb(x, TruncInt(y))
      [] op = "near" -> Nearest(x)

\* the values after the step ins
Step(regs, ins) == (ins[1] :> Arith(ins[2], regs[ins[3]], regs[ins[4]])) @@ regs

RECURSIVE Run(_, _, _, _)
\* the values after the steps i to j of prog, one after the other
Run(prog, i, j, regs) ==
    CASE i > j -> regs
      [] i = j -> Step(regs, prog[i])
      [] OTHER -> Let(Run(prog, i, (i + j) \div 2, regs),
                      LAMBDA half : Run(prog, (i + j) \div 2 + 1, j, half))

\* the steps of __kernel_sin(x, y, iy) and __kernel_cos(x, y) --------------
\* z = x*x; v = z*x; r = S2+z*(S3+z*(S4+z*(S5+z*S6)))
SinPoly ==
    << <<"z", "*", "x", "x">>, <<"v", "*", "z", "x">>,
       <<"r", "*", "z", "S6">>, <<"r", "+", "S5", "r">>,
       <<"r", "*", "z", "r">>, <<"r", "+", "S4", "r">>,
       <<"r", "*", "z", "r">>, <<"r", "+", "S3", "r">>,
       <<"r", "*", "z", "r">>, <<"r", "+", "S2", "r">> >>

\* iy = 0: x+v*(S1+z*r)
SinHead ==
    << <<"t", "*", "z", "r">>, <<"t", "+", "S1", "t">>,
       <<"t", "*", "v", "t">>, <<"sin", "+", "x", "t">> >>

\* x-((z*(half*y-v*r)-y)-v*S1)
SinTail ==
    << <<"t", "*", "half", "y">>, <<"u", "*", "v", "r">>,
       <<"t", "-", "t", "u">>, <<"t", "*", "z", "t">>,
       <<"t", "-", "t", "y">>, <<"u", "*", "v", "S1">>,
       <<"t", "-", "t", "u">>, <<"sin", "-", "x", "t">> >>

\* z = x*x; r = z*(C1+z*(C2+z*(C3+z*(C4+z*(C5+z*C6))))); then z*r - x*y
CosPoly ==
    << <<"z", "*", "x", "x">>,
       <<"r", "*", "z", "C6">>, <<"r", "+", "C5", "r">>,
       <<"r", "*", "z", "r">>, <<"r", "+", "C4", "r">>,
       <<"r", "*", "z", "r">>, <<"r", "+", "C3", "r">>,
       <<"r", "*", "z", "r">>, <<"r", "+", "C2", "r">>,
       <<"r", "*", "z", "r">>, <<"r", "+", "C1", "r">>,
       <<"r", "*", "z", "r">>,
       <<"t", "*", "z", "r">>, <<"u", "*", "x", "y">>, <<"t", "-", "t", "u">> >>

\* |x| < 0.3: one - (0.5*z - (z*r - x*y))
CosLow ==
    << <<"u", "*", "half", "z">>, <<"u", "-", "u", "t">>,
       <<"cos", "-", "one", "u">> >>

\* iz = 0.5*z - qx; a = one - qx; a - (iz - (z*r - x*y))
CosHigh ==
    << <<"qx", "qx", "x", "x">>,
       <<"iz", "*", "half", "z">>, <<"iz", "-", "iz", "qx">>,
       <<"a", "-", "one", "qx">>, <<"u", "-", "iz", "t">>,
       <<"cos", "-", "a", "u">> >>

\* __kernel_sin and __kernel_cos of x = y[0] with the tail y = y[1], for the
\* high word hx of |x|: below 2^-27 the sine is x and the cosine one; the
\* tail is left out of the sine (iy = 0) when the argument was not reduced
Kernels(hx, direct) ==
    << <<"x", "=", "y0", "y0">>, <<"y", "=", "y1", "y1">> >>
    \o (IF hx < \h3E400000
        THEN << <<"sin", "=", "x", "x">>, <<"cos", "=", "one", "one">> >>
        ELSE SinPoly \o (IF direct THEN SinHead ELSE SinTail)
             \o CosPoly \o (IF hx < \h3FD33333 THEN CosLow ELSE CosHigh))

\* the steps of __ieee754_rem_pio2(x, y) for x > 0, its argument arg ------
\* no reduction for |x| ~<= pi/4
Direct ==
    << <<"y0", "=", "arg", "arg">>, <<"y1", "-", "arg", "arg">>,
       <<"fn", "-", "arg", "arg">> >>

\* |x| < 3pi/4, n = 1: z = x - pio2_1; y[0] = z - pio2_1t; y[1] =
\* (z-y[0])-pio2_1t; near pi/2 a second piece is taken first, z -= pio2_2,
\* and its tail pio2_2t in the place of pio2_1t
NearPio2(near) ==
    << <<"fn", "=", "one", "one">>, <<"z", "-", "arg", "pio2_1">> >>
    \o (IF near THEN << <<"z", "-", "z", "pio2_2">>, <<"w", "=", "pio2_2t", "one">> >>
        ELSE << <<"w", "=", "pio2_1t", "one">> >>)
    \o << <<"y0", "-", "z", "w">>, <<"u", "-", "z", "y0">>,
          <<"y1", "-", "u", "w">> >>

\* |x| ~<= 2^19*(pi/2): n = (int)(t*invpio2+half); fn = (double)n;
\* r = t-fn*pio2_1; w = fn*pio2_1t; y[0] = r-w
Round1 ==
    << <<"u", "*", "arg", "invpio2">>, <<"u", "+", "u", "half">>,
       <<"fn", "int", "u", "u">>,
       <<"w", "*", "fn", "pio2_1">>, <<"r", "-", "arg", "w">>,
       <<"w", "*", "fn", "pio2_1t">>, <<"y0", "-", "r", "w">> >>

\* t = r; w = fn*p; r = t-w; w = fn*pt-((t-r)-w); y[0] = r-w for the next
\* piece p of pi/2 and its tail pt
RoundNext(p, pt) ==
    << <<"t", "=", "r", "r">>, <<"w", "*", "fn", p>>, <<"r", "-", "t", "w">>,
       <<"u", "-", "t", "r">>, <<"u", "-", "u", "w">>,
       <<"w", "*", "fn", pt>>, <<"w", "-", "w", "u">>,
       <<"y0", "-", "r", "w">> >>

\* y[1] = (r-y[0])-w
RoundTail == << <<"u", "-", "r", "y0">>, <<"y1", "-", "u", "w">> >>

\* the high words of n * pi/2 for n up to 32
npio2_hw ==
    << \h3FF921FB, \h400921FB, \h4012D97C, \h401921FB,
       \h401F6A7A, \h4022D97C, \h4025FDBB, \h402921FB,
       \h402C463A, \h402F6A7A, \h4031475C, \h4032D97C,
       \h40346B9C, \h4035FDBB, \h40378FDB, \h403921FB,
       \h403AB41B, \h403C463A, \h403DD85A, \h403F6A7A,
       \h40407E4C, \h4041475C, \h4042106C, \h4042D97C,
       \h4043A28C, \h40446B9C, \h404534AC, \h4045FDBB,
       \h4046C6CB, \h40478FDB, \h404858EB, \h404921FB >>

\* the bits lost when y[0] is taken from an argument with the high word ix:
\* the difference of the exponents
Lost(ix, regs) == ix \div 2 ^ 20 - HighWord(regs.y0) \div 2 ^ 20

\* the first round is good when n < 32 and x is not near n * pi/2
Quick(ix, n) == n < 32 /\ ix # npio2_hw[n]

\* __kernel_rem_pio2 -------------------------------------------------------
\* 2/pi in pieces of 24 bits after the binary point
two_over_pi ==
    << \hA2F983, \h6E4E44, \h1529FC, \h2757D1, \hF534DD, \hC0DB62,
       \h95993C, \h439041, \hFE5163, \hABDEBB, \hC561B7, \h246E3A,
       \h424DD2, \hE00649, \h2EEA09, \hD1921C, \hFE1DEB, \h1CB129,
       \hA73EE8, \h8235F5, \h2EBB44, \h84E99C, \h7026B4, \h5F7E41,
       \h3991D6, \h398353, \h39F49C, \h845F8B, \hBDF928, \h3B1FF8,
       \h97FFDE, \h05980F, \hEF2F11, \h8B5A0A, \h6D1F6D, \h367ECF,
       \h27CB09, \hB74F46, \h3F669E, \h5FEA2D, \h7527BA, \hC7EBE5,
       \hF17B3D, \h0739F7, \h8A5292, \hEA6BFB, \h5FB11F, \h8D5D08,
       \h560330, \h46FC7B, \h6BABF0, \hCFBC20, \h9AF436, \h1DA9E3,
       \h91615E, \hE61B08, \h659985, \h5F14A0, \h68408D, \hFFD880,
       \h4D7327, \h310606, \h1556CA, \h73A8C9, \h60E27B, \hC08C6B >>

RECURSIVE Window(_, _, _)
\* the pieces a to b of 2/pi after acc, as one number; the pieces before the
\* first are 0
Window(a, b, acc) ==
    IF a > b THEN acc
    ELSE Window(a + 1, b,
                NAdd(NShl(acc, 24), NFromInt(IF a < 0 THEN 0 ELSE two_over_pi[a + 1])))

RECURSIVE Convolved(_, _, _, _, _)
\* q[0] .. q[jz] as one number, q[jz] at the units and each q[i] 2^24 times
\* the next: q[i] is the sum of x[j] * ipio2[jv + i - j], an exact double
Convolved(tx, jv, jz, j, acc) ==
    IF j > 2 THEN acc
    ELSE Convolved(tx, jv, jz, j + 1,
                   NAdd(acc, NMul(NFromInt(tx[j + 1]),
                                  Window(jv - j, jv - j + jz, <<>>))))

\* the 24 low bits of a
Low24(a) == (Limb(a, 1) + LimbBase * Limb(a, 2)) % 2 ^ 24

\* a % 2^k for k up to 27
LowBits(a, k) ==
    (Limb(a, 1) + LimbBase * Limb(a, 2) + LimbBase * LimbBase * (Limb(a, 3) % 2))
    % 2 ^ k

\* the distilled q: iq[0] .. iq[jz - 1] (here from 1), 24 bits each, and the
\* number z left above them
Distilled(N, jz) ==
    [iq |-> [i \in 1 .. jz |-> Low24(NShr(N, 24 * (i - 1)))] \o <<>>,
     z |-> NShr(N, 24 * jz)]

\* z = scalbn(z, q0); z -= 8.0*floor(z*0.125); n = (int) z; z -= (double)n:
\* n and the fraction z in units of 2^q0
Scalbn(d, q0) ==
    IF q0 < 0
    THEN [iq |-> d.iq, n |-> LowBits(NShr(d.z, 0 - q0), 3),
          z |-> LowBits(d.z, 0 - q0)]
    ELSE [iq |-> d.iq, n |-> (LowBits(d.z, 3) * 2 ^ q0) % 8, z |-> 0]

\* the last of iq with only its 24 - q0 lowest bits
WithLast(iq, jz, q0) == [iq EXCEPT ![jz] = @ % 2 ^ (24 - q0)]

\* for q0 > 0 the high bits of iq[jz - 1] belong to n; ih is 1 when the
\* fraction is at least 1/2, and 2 when that shows in z
Halved(d, jz, q0) ==
    IF q0 > 0
    THEN [iq |-> WithLast(d.iq, jz, q0), z |-> d.z,
          n |-> d.n + d.iq[jz] \div 2 ^ (24 - q0),
          ih |-> (d.iq[jz] % 2 ^ (24 - q0)) \div 2 ^ (23 - q0)]
    ELSE IF q0 = 0
    THEN [iq |-> d.iq, z |-> d.z, n |-> d.n, ih |-> d.iq[jz] \div 2 ^ 23]
    ELSE [iq |-> d.iq, z |-> d.z, n |-> d.n,
          ih |-> IF 2 * d.z >= 2 ^ (0 - q0) THEN 2 ELSE 0]

\* the lowest of iq that is not 0, or 0 when there is none
Lowest(iq) ==
    IF \A i \in 1 .. Len(iq) : iq[i] = 0 THEN 0
    ELSE CHOOSE c \in 1 .. Len(iq) : iq[c] # 0 /\ \A i \in 1 .. c - 1 : iq[i] = 0

\* 1 - q for the fraction q held in iq, whose lowest piece not 0 is at c
Complement(iq, c) ==
    [i \in 1 .. Len(iq) |->
        IF i < c THEN iq[i]
        ELSE IF i = c THEN 2 ^ 24 - iq[i] ELSE 2 ^ 24 - 1 - iq[i]] \o <<>>

\* q = 1 - q when the fraction is at least 1/2 (ih > 0): n grows by 1
Negated(d, jz, q0, c) ==
    IF d.ih = 0 THEN d
    ELSE [iq |-> IF c = 0 THEN d.iq
                 ELSE IF q0 > 0 THEN WithLast(Complement(d.iq, c), jz, q0)
                 ELSE Complement(d.iq, c),
          n |-> d.n + 1, ih |-> d.ih,
          z |-> IF d.ih = 2 THEN 2 ^ (0 - q0) - d.z - (IF c = 0 THEN 0 ELSE 1)
                ELSE d.z]

\* z is 0, and so are the pieces of the fraction from the first jk on
Vanished(d, jk) == d.z = 0 /\ \A i \in jk + 1 .. Len(d.iq) : d.iq[i] = 0

\* the number of terms to bring in for the recomputation
MoreTerms(iq, jk) ==
    CHOOSE k \in 1 .. jk :
        iq[jk - k + 1] # 0 /\ \A i \in 1 .. k - 1 : iq[jk - i + 1] = 0

\* the fraction as its pieces, the highest last and not 0, with the
\* exponent q0 of the highest: z is chopped when 0, and broken in two pieces
\* of 24 bits when it has more
Chopped(d, jz, q0) ==
    IF d.z = 0
    THEN Let(Top({i \in 1 .. jz : d.iq[i] # 0}), LAMBDA top :
             [iq |-> SubSeq(d.iq, 1, top), q0 |-> q0 - 24 * (jz + 1 - top),
              n |-> d.n, ih |-> d.ih])
    ELSE IF d.z >= 2 ^ 24
    THEN [iq |-> d.iq \o <<d.z % 2 ^ 24, d.z \div 2 ^ 24>>, q0 |-> q0 + 24,
          n |-> d.n, ih |-> d.ih]
    ELSE [iq |-> d.iq \o <<d.z>>, q0 |-> q0, n |-> d.n, ih |-> d.ih]

RECURSIVE Reduced(_, _, _, _, _)
\* the distillation of q[0] .. q[jz], with more terms of 2/pi when the
\* fraction vanishes
Reduced(tx, jv, q0, jk, jz) ==
    Let(Distilled(Convolved(tx, jv, jz, 0, <<>>), jz), LAMBDA dist :
    Let(Halved(Scalbn(dist, q0), jz, q0), LAMBDA h :
    Let(Negated(h, jz, q0, Lowest(h.iq)), LAMBDA d :
        IF Vanished(d, jk) THEN Reduced(tx, jv, q0, jk, jz + MoreTerms(d.iq, jk))
        ELSE Chopped(d, jz, q0))))

\* the name of element i of an array
Name(array, i) == array \o ToString(i)

\* q[0] .. q[jz] of the fraction c as doubles, and fn = n & 7
Given(c) ==
    [name \in {Name("q", i) : i \in 0 .. Len(c.iq) - 1} \cup {"fn"} |->
        IF name = "fn" THEN DInt(c.n % 8)
        ELSE Let(CHOOSE i \in 0 .. Len(c.iq) - 1 : name = Name("q", i), LAMBDA i :
                 RoundSig(1, NFromInt(c.iq[i + 1]),
                          c.q0 - 24 * (Len(c.iq) - 1 - i), FALSE))]

\* for (fw=0.0,k=0;k<=jp&&k<=jz-i;k++) fw += PIo2[k]*q[i+k]; fq[jz-i] = fw;
\* for m = jz - i, with jp = 4
Dot(m, jz) ==
    << <<"fw", "-", "one", "one">> >>
    \o [j \in 1 .. 2 * ((IF m < 4 THEN m ELSE 4) + 1) |->
          IF j % 2 = 1
          THEN <<"t", "*", Name("PIo2_", (j - 1) \div 2),
                 Name("q", jz - m + (j - 1) \div 2)>>
          ELSE <<"fw", "+", "fw", "t">>]
    \o << <<Name("fq", m), "=", "fw", "fw">> >>

RECURSIVE Dots(_, _)
\* the steps for fq[m] .. fq[jz]
Dots(m, jz) == IF m > jz THEN <<>> ELSE Dot(m, jz) \o Dots(m + 1, jz)

\* for (i=jz;i>=0;i--) fw += fq[i]; y[0] = fw; fw = fq[0]-fw;
\* for (i=1;i<=jz;i++) fw += fq[i]; y[1] = fw
Compress(jz) ==
    << <<"fw", "-", "one", "one">> >>
    \o [i \in 1 .. jz + 1 |-> <<"fw", "+", "fw", Name("fq", jz + 1 - i)>>]
    \o << <<"y0", "=", "fw", "fw">>, <<"fw", "-", "fq0", "fw">> >>
    \o [i \in 1 .. jz |-> <<"fw", "+", "fw", Name("fq", i)>>]
    \o << <<"y1", "=", "fw", "fw">> >>

\* y[0] = -fw and y[1] = -fw for ih > 0
Negate(ih) ==
    IF ih = 0 THEN <<>>
    ELSE << <<"fw", "-", "one", "one">>, <<"y0", "-", "fw", "y0">>,
            <<"y1", "-", "fw", "y1">> >>

\* the steps of __kernel_rem_pio2 after the distillation c
PayneHanek(c) == Dots(0, Len(c.iq) - 1) \o Compress(Len(c.iq) - 1) \o Negate(c.ih)

\* the three pieces of 24 bits of the significand of x
Pieces(x) ==
    Let(NShl(x.m, 19), LAMBDA t : <<NToInt(NShr(t, 48)), Low24(NShr(t, 24)), Low24(t)>>)

\* the distillation for x = tx * 2^e0 with e0 = ilogb(x) - 23, jv = (e0 -
\* 3) / 24 (not below 0), q0 = e0 - 24 * (jv + 1), prec = 2 and jk = 4
Distillation(x, e0, jv) == Reduced(Pieces(x), jv, e0 - 24 * (jv + 1), 4, 4)

\* the distillation of x beyond 2^19*(pi/2)
Large(x) ==
    Distillation(x, x.e + 29, IF x.e + 26 < 0 THEN 0 ELSE (x.e + 26) \div 24)

\* Math.exp, Math.log, Math.asin and Math.pow --------------------------------
\* Math.exp, Math.log and Math.asin are the engine's, computed as fdlibm
\* does (V8's src/base/ieee754.cc), and Math.pow as V8's port of fdlibm's
\* e_pow.c does, which divides by (t1-two)-(w+z*w) where fdlibm subtracts
\* w+z*w from the quotient by t1-two.
\* t = x*x; c = x - t*(P1+t*(P2+t*(P3+t*(P4+t*P5))))
ExpPoly ==
    << <<"t", "*", "x", "x">>,
       <<"c", "*", "t", "P5">>, <<"c", "+", "P4", "c">>,
       <<"c", "*", "t", "c">>, <<"c", "+", "P3", "c">>,
       <<"c", "*", "t", "c">>, <<"c", "+", "P2", "c">>,
       <<"c", "*", "t", "c">>, <<"c", "+", "P1", "c">>,
       <<"c", "*", "t", "c">>, <<"c", "-", "x", "c">> >>

\* 0.5*ln2 < |x| < 1.5*ln2: hi = x - ln2HI[xsb]; lo = ln2LO[xsb]; k = 1 -
\* xsb - xsb; x = hi - lo
ExpOne(neg) ==
    (IF neg
     THEN << <<"hi", "+", "x", "ln2HI">>, <<"lo", "-", "zero", "ln2LO">>,
             <<"fk", "-", "zero", "one">> >>
     ELSE << <<"hi", "-", "x", "ln2HI">>, <<"lo", "=", "ln2LO", "one">>,
             <<"fk", "=", "one", "one">> >>)
    \o << <<"x", "-", "hi", "lo">> >>

\* k = (int)(invln2*x+halF[xsb]); t = k; hi = x - t*ln2HI[0]; lo =
\* t*ln2LO[0]; x = hi - lo
ExpMany(neg) ==
    << <<"u", "*", "invln2", "x">>,
       <<"u", IF neg THEN "-" ELSE "+", "u", "half">>,
       <<"fk", "int", "u", "u">>,
       <<"v", "*", "fk", "ln2HI">>, <<"hi", "-", "x", "v">>,
       <<"lo", "*", "fk", "ln2LO">>, <<"x", "-", "hi", "lo">> >>

\* k = 0: one-((x*c)/(c-2.0)-x)
ExpZero ==
    << <<"u", "*", "x", "c">>, <<"v", "-", "c", "two">>,
       <<"u", "/", "u", "v">>, <<"u", "-", "u", "x">>,
       <<"exp", "-", "one", "u">> >>

\* y = one-((lo-(x*c)/(2.0-c))-hi), and y * 2^k
ExpScaled ==
    << <<"u", "*", "x", "c">>, <<"v", "-", "two", "c">>,
       <<"u", "/", "u", "v">>, <<"u", "-", "lo", "u">>,
       <<"u", "-", "u", "hi">>, <<"y", "-", "one", "u">>,
       <<"exp", "scalb", "y", "fk">> >>

\* the steps of exp(x) for the high word hx of |x|, x between the
\* thresholds of the overflow and of the underflow
ExpSteps(hx, neg, isOne) ==
    << <<"x", "=", "arg", "arg">>, <<"zero", "-", "one", "one">> >>
    \o (IF hx > \h3FD62E42
        THEN (IF hx < \h3FF0A2B2
              THEN (IF isOne THEN << <<"exp", "=", "E", "E">> >>
                    ELSE ExpOne(neg) \o ExpPoly \o ExpScaled)
              ELSE ExpMany(neg) \o ExpPoly \o ExpScaled)
        ELSE IF hx < \h3E300000 THEN << <<"exp", "+", "one", "x">> >>
        ELSE ExpPoly \o ExpZero)

\* the steps of log(x) for x = 2^k * (1 + f), its registers x with sqrt(2)/2
\* < x < sqrt(2) and dk = k; hx holds the 20 high bits of the fraction of
\* the argument -----------------------------------------------------------
\* |f| < 2^-20: R = f*f*(0.5-0.33333333333333333*f)
LogNear(hasK, exact) ==
    IF exact
    THEN (IF hasK
          THEN << <<"u", "*", "dk", "ln2HI">>, <<"v", "*", "dk", "ln2LO">>,
                  <<"log", "+", "u", "v">> >>
          ELSE << <<"log", "-", "one", "one">> >>)
    ELSE << <<"R", "*", "third", "f">>, <<"R", "-", "half", "R">>,
            <<"u", "*", "f", "f">>, <<"R", "*", "u", "R">> >>
         \o (IF hasK
             THEN << <<"u", "*", "dk", "ln2LO">>, <<"u", "-", "R", "u">>,
                     <<"u", "-", "u", "f">>, <<"v", "*", "dk", "ln2HI">>,
                     <<"log", "-", "v", "u">> >>
             ELSE << <<"log", "-", "f", "R">> >>)

\* s = f/(2.0+f); z = s*s; w = z*z; t1 = w*(Lg2+w*(Lg4+w*Lg6)); t2 =
\* z*(Lg1+w*(Lg3+w*(Lg5+w*Lg7))); R = t2+t1
LogPoly ==
    << <<"s", "+", "two", "f">>, <<"s", "/", "f", "s">>,
       <<"z", "*", "s", "s">>, <<"w", "*", "z", "z">>,
       <<"t1", "*", "w", "Lg6">>, <<"t1", "+", "Lg4", "t1">>,
       <<"t1", "*", "w", "t1">>, <<"t1", "+", "Lg2", "t1">>,
       <<"t1", "*", "w", "t1">>,
       <<"t2", "*", "w", "Lg7">>, <<"t2", "+", "Lg5", "t2">>,
       <<"t2", "*", "w", "t2">>, <<"t2", "+", "Lg3", "t2">>,
       <<"t2", "*", "w", "t2">>, <<"t2", "+", "Lg1", "t2">>,
       <<"t2", "*", "z", "t2">>, <<"R", "+", "t2", "t1">> >>

\* hfsq = 0.5*f*f; f-(hfsq-s*(hfsq+R)), or
\* dk*ln2_hi-((hfsq-(s*(hfsq+R)+dk*ln2_lo))-f)
LogHfsq(hasK) ==
    << <<"hfsq", "*", "half", "f">>, <<"hfsq", "*", "hfsq", "f">>,
       <<"u", "+", "hfsq", "R">>, <<"u", "*", "s", "u">> >>
    \o (IF hasK
        THEN << <<"v", "*", "dk", "ln2LO">>, <<"u", "+", "u", "v">>,
                <<"u", "-", "hfsq", "u">>, <<"u", "-", "u", "f">>,
                <<"v", "*", "dk", "ln2HI">>, <<"log", "-", "v", "u">> >>
        ELSE << <<"u", "-", "hfsq", "u">>, <<"log", "-", "f", "u">> >>)

\* f-s*(f-R), or dk*ln2_hi-((s*(f-R)-dk*ln2_lo)-f)
LogPlain(hasK) ==
    << <<"u", "-", "f", "R">>, <<"u", "*", "s", "u">> >>
    \o (IF hasK
        THEN << <<"v", "*", "dk", "ln2LO">>, <<"u", "-", "u", "v">>,
                <<"u", "-", "u", "f">>, <<"v", "*", "dk", "ln2HI">>,
                <<"log", "-", "v", "u">> >>
        ELSE << <<"log", "-", "f", "u">> >>)

LogSteps(hx, hasK, exact) ==
    << <<"f", "-", "x", "one">> >>
    \o (IF (2 + hx) % 2 ^ 20 < 3 THEN LogNear(hasK, exact)
        ELSE LogPoly \o (IF hx >= \h6147A /\ hx <= \h6B851 THEN LogHfsq(hasK)
                         ELSE LogPlain(hasK)))

\* the steps of asin(x) for the high word ix of |x| <= 1 -------------------
\* p = t*(pS0+t*(pS1+t*(pS2+t*(pS3+t*(pS4+t*pS5))))); q =
\* one+t*(qS1+t*(qS2+t*(qS3+t*qS4)))
AsinPoly ==
    << <<"p", "*", "t", "pS5">>, <<"p", "+", "pS4", "p">>,
       <<"p", "*", "t", "p">>, <<"p", "+", "pS3", "p">>,
       <<"p", "*", "t", "p">>, <<"p", "+", "pS2", "p">>,
       <<"p", "*", "t", "p">>, <<"p", "+", "pS1", "p">>,
       <<"p", "*", "t", "p">>, <<"p", "+", "pS0", "p">>,
       <<"p", "*", "t", "p">>,
       <<"q", "*", "t", "qS4">>, <<"q", "+", "qS3", "q">>,
       <<"q", "*", "t", "q">>, <<"q", "+", "qS2", "q">>,
       <<"q", "*", "t", "q">>, <<"q", "+", "qS1", "q">>,
       <<"q", "*", "t", "q">>, <<"q", "+", "one", "q">> >>

\* |x| < 0.5: t = x*x; w = p/q; x+x*w
AsinLow ==
    << <<"t", "*", "x", "x">> >> \o AsinPoly
    \o << <<"w", "/", "p", "q">>, <<"w", "*", "x", "w">>,
          <<"asin", "+", "x", "w">> >>

\* |x| >= 0.975: w = p/q; t = pio2_hi-(2.0*(s+s*w)-pio2_lo)
AsinHigh ==
    << <<"w", "/", "p", "q">>, <<"w", "*", "s", "w">>,
       <<"w", "+", "s", "w">>, <<"w", "*", "two", "w">>,
       <<"w", "-", "w", "pio2_lo">>, <<"t", "-", "pio2_hi", "w">> >>

\* w = s with the low word 0; c = (t-w*w)/(s+w); r = p/q; p =
\* 2.0*s*r-(pio2_lo-2.0*c); q = pio4_hi-2.0*w; t = pio4_hi-(p-q)
AsinMid ==
    << <<"w", "hi", "s", "s">>,
       <<"u", "*", "w", "w">>, <<"u", "-", "t", "u">>,
       <<"v", "+", "s", "w">>, <<"c", "/", "u", "v">>,
       <<"r", "/", "p", "q">>,
       <<"p", "*", "two", "s">>, <<"p", "*", "p", "r">>,
       <<"u", "*", "two", "c">>, <<"u", "-", "pio2_lo", "u">>,
       <<"p", "-", "p", "u">>,
       <<"q", "*", "two", "w">>, <<"q", "-", "pio4_hi", "q">>,
       <<"u", "-", "p", "q">>, <<"t", "-", "pio4_hi", "u">> >>

\* 1 > |x| >= 0.5: w = one-fabs(x); t = w*0.5; s = sqrt(t); the sign of x
\* is given to the result
AsinUpper(ix, neg) ==
    << <<"w", "abs", "x", "x">>, <<"w", "-", "one", "w">>,
       <<"t", "*", "w", "half">> >>
    \o AsinPoly \o << <<"s", "sqrt", "t", "t">> >>
    \o (IF ix >= \h3FEF3333 THEN AsinHigh ELSE AsinMid)
    \o (IF neg THEN << <<"zero", "-", "one", "one">>, <<"asin", "-", "zero", "t">> >>
        ELSE << <<"asin", "=", "t", "t">> >>)

AsinSteps(ix, neg) ==
    << <<"x", "=", "arg", "arg">> >>
    \o (IF ix >= \h3FF00000
        THEN << <<"u", "*", "x", "pio2_hi">>, <<"v", "*", "x", "pio2_lo">>,
                <<"asin", "+", "u", "v">> >>
        ELSE IF ix < \h3E400000 THEN << <<"asin", "=", "x", "x">> >>
        ELSE IF ix < \h3FE00000 THEN AsinLow
        ELSE AsinUpper(ix, neg))

\* the steps of pow(x, y) for x > 0 and |y| < 2^31: |x| = 2^n * ax with ax
\* near bp, 1 or 1.5; the registers are ax, bp, dp_h, dp_l, fn = n, y and
\* the first t_h, ax with the bits chosen by its high word ---------------
\* ss = s_h+s_l = (x-1)/(x+1) or (x-1.5)/(x+1.5)
PowRatio ==
    << <<"u", "-", "ax", "bp">>, <<"v", "+", "ax", "bp">>,
       <<"v", "/", "one", "v">>, <<"ss", "*", "u", "v">>,
       <<"s_h", "hi", "ss", "ss">>,
       <<"t_l", "-", "t_h", "bp">>, <<"t_l", "-", "ax", "t_l">>,
       <<"a", "*", "s_h", "t_h">>, <<"a", "-", "u", "a">>,
       <<"b", "*", "s_h", "t_l">>, <<"a", "-", "a", "b">>,
       <<"s_l", "*", "v", "a">> >>

\* s2 = ss*ss; r = s2*s2*(L1+s2*(L2+s2*(L3+s2*(L4+s2*(L5+s2*L6))))); r +=
\* s_l*(s_h+ss); s2 = s_h*s_h; t_h = 3.0+s2+r with the low word 0; t_l =
\* r-((t_h-3.0)-s2)
PowLogPoly ==
    << <<"s2", "*", "ss", "ss">>,
       <<"r", "*", "s2", "L6">>, <<"r", "+", "L5", "r">>,
       <<"r", "*", "s2", "r">>, <<"r", "+", "L4", "r">>,
       <<"r", "*", "s2", "r">>, <<"r", "+", "L3", "r">>,
       <<"r", "*", "s2", "r">>, <<"r", "+", "L2", "r">>,
       <<"r", "*", "s2", "r">>, <<"r", "+", "L1", "r">>,
       <<"a", "*", "s2", "s2">>, <<"r", "*", "a", "r">>,
       <<"a", "+", "s_h", "ss">>, <<"a", "*", "s_l", "a">>,
       <<"r", "+", "r", "a">>,
       <<"s2", "*", "s_h", "s_h">>,
       <<"t_h", "+", "three", "s2">>, <<"t_h", "+", "t_h", "r">>,
       <<"t_h", "hi", "t_h", "t_h">>,
       <<"a", "-", "t_h", "three">>, <<"a", "-", "a", "s2">>,
       <<"t_l", "-", "r", "a">> >>

\* u+v = ss*(1+...); 2/(3log2)*(ss+...) = z_h+z_l; log2(ax) =
\* (ss+..)*2/(3*log2) = n + dp_h + z_h + z_l = t1+t2
PowLog2 ==
    << <<"u", "*", "s_h", "t_h">>,
       <<"a", "*", "s_l", "t_h">>, <<"b", "*", "t_l", "ss">>,
       <<"v", "+", "a", "b">>,
       <<"p_h", "+", "u", "v">>, <<"p_h", "hi", "p_h", "p_h">>,
       <<"a", "-", "p_h", "u">>, <<"p_l", "-", "v", "a">>,
       <<"z_h", "*", "cp_h", "p_h">>,
       <<"a", "*", "cp_l", "p_h">>, <<"b", "*", "p_l", "cp">>,
       <<"z_l", "+", "a", "b">>, <<"z_l", "+", "z_l", "dp_l">>,
       <<"t1", "+", "z_h", "z_l">>, <<"t1", "+", "t1", "dp_h">>,
       <<"t1", "+", "t1", "fn">>, <<"t1", "hi", "t1", "t1">>,
       <<"a", "-", "t1", "fn">>, <<"a", "-", "a", "dp_h">>,
       <<"a", "-", "a", "z_h">>, <<"t2", "-", "z_l", "a">> >>

\* y1 = y with the low word 0; p_l = (y-y1)*t1+y*t2; p_h = y1*t1; z =
\* p_l+p_h
PowTimesY ==
    << <<"y1", "hi", "y", "y">>,
       <<"a", "-", "y", "y1">>, <<"a", "*", "a", "t1">>,
       <<"b", "*", "y", "t2">>, <<"p_l", "+", "a", "b">>,
       <<"p_h", "*", "y1", "t1">>, <<"z", "+", "p_l", "p_h">>,
       <<"sum", "=", "z", "z">>, <<"p_h0", "=", "p_h", "p_h">> >>

\* 2^(p_h+p_l): for |z| > 0.5 the whole number n nearest to z is taken
\* from p_h; t = p_l+p_h with the low word 0; u = t*lg2_h; v =
\* (p_l-(t-p_h))*lg2+t*lg2_l; z = u+v; w = v-(z-u); t = z*z; t1 =
\* z-t*(P1+t*(P2+t*(P3+t*(P4+t*P5)))); r = Divide(z*t1, (t1-two)-(w+z*w));
\* z = one-(r-z), and z * 2^n
PowExp2 ==
    << <<"tn", "near", "z", "z">>, <<"p_h", "-", "p_h", "tn">>,
       <<"t", "+", "p_l", "p_h">>, <<"t", "hi", "t", "t">>,
       <<"u", "*", "t", "lg2_h">>,
       <<"a", "-", "t", "p_h">>, <<"a", "-", "p_l", "a">>,
       <<"a", "*", "a", "lg2">>, <<"b", "*", "t", "lg2_l">>,
       <<"v", "+", "a", "b">>,
       <<"z", "+", "u", "v">>,
       <<"a", "-", "z", "u">>, <<"w", "-", "v", "a">>,
       <<"t", "*", "z", "z">>,
       <<"c", "*", "t", "P5">>, <<"c", "+", "P4", "c">>,
       <<"c", "*", "t", "c">>, <<"c", "+", "P3", "c">>,
       <<"c", "*", "t", "c">>, <<"c", "+", "P2", "c">>,
       <<"c", "*", "t", "c">>, <<"c", "+", "P1", "c">>,
       <<"c", "*", "t", "c">>, <<"t1", "-", "z", "c">>,
       <<"a", "*", "z", "t1">>, <<"b", "-", "t1", "two">>,
       <<"c", "*", "z", "w">>, <<"c", "+", "w", "c">>,
       <<"b", "-", "b", "c">>,
       <<"r", "/", "a", "b">>,
       <<"a", "-", "r", "z">>, <<"z", "-", "one", "a">>,
       <<"pow", "scalb", "z", "tn">> >>

PowSteps == PowRatio \o PowLogPoly \o PowLog2 \o PowTimesY \o PowExp2

\* the computations, stage by stage ---------------------------------------
\* the steps of a stage of a computation from the values regs: for the
\* sine and the cosine of x > 0, ix is the high word of x and c the
\* distillation of x beyond 2^19*(pi/2); for the others ix is the high
\* word, or for log the high bits of the fraction, of the argument and c
\* its parts
Steps(stage, ix, c, regs) ==
    CASE stage = "reduce" ->
           IF ix <= \h3FE921FB THEN Direct
           ELSE IF ix < \h4002D97C THEN NearPio2(ix = \h3FF921FB)
           ELSE IF ix <= \h413921FB THEN Round1
           ELSE PayneHanek(c)
      [] stage = "second" -> RoundNext("pio2_2", "pio2_2t")
      [] stage = "third" -> RoundNext("pio2_3", "pio2_3t")
      [] stage = "tail" -> RoundTail
      [] stage = "kernel" -> Kernels(HighWord(regs.y0), ix <= \h3FE921FB)
      [] stage = "exp" -> ExpSteps(ix, regs.arg.s < 0, regs.arg = regs.one)
      [] stage = "log" -> LogSteps(ix, c[1] # 0, regs.x = regs.one)
      [] stage = "asin" -> AsinSteps(ix, regs.arg.s < 0)
      [] stage = "pow" -> PowSteps

\* the stage after a stage, from the values it leaves
After(stage, ix, regs) ==
    CASE stage = "reduce" ->
           IF ix < \h4002D97C \/ ix > \h413921FB THEN "kernel"
           ELSE IF Quick(ix, TruncInt(regs.fn)) \/ Lost(ix, regs) <= 16 THEN "tail"
           ELSE "second"
      [] stage = "second" -> IF Lost(ix, regs) <= 49 THEN "tail" ELSE "third"
      [] stage = "third" -> "tail"
      [] stage = "tail" -> "kernel"
      [] OTHER -> "done"

\* the values after all the steps of prog
RunAll(prog, regs) == Run(prog, 1, Len(prog), regs)

RECURSIVE Stages(_, _, _, _)
\* the values after the stages from next on, after the values of the stage
\* before it
Continue(next, ix, c, after) ==
    IF next = "done" THEN after ELSE Stages(next, ix, c, after)

\* the values after the stages from stage on
Stages(stage, ix, c, regs) ==
    Let(RunAll(Steps(stage, ix, c, regs), regs),
        LAMBDA after : Continue(After(stage, ix, after), ix, c, after))

\* <<sin, cos>> of n * pi/2 + y from the sine s and the cosine c of y
Quadrant(n, s, c) ==
    CASE n % 4 = 0 -> <<s, c>>
      [] n % 4 = 1 -> <<c, DNeg(s)>>
      [] n % 4 = 2 -> <<DNeg(s), DNeg(c)>>
      [] OTHER -> <<DNeg(c), s>>

\* <<sin, cos>> of x > 0 with the high word ix
SinCos(x, ix, c) ==
    Let(Stages("reduce", ix, c,
               (IF ix > \h413921FB THEN Given(c) ELSE <<>>) @@ [arg |-> x] @@ FdConst),
        LAMBDA regs : Quadrant(TruncInt(regs.fn), regs.sin, regs.cos))

\* the sine is odd and the cosine even, exactly
Odd(x, sc) == IF x.s < 0 THEN <<DNeg(sc[1]), sc[2]>> ELSE sc

\* <<Math.sin(x), Math.cos(x)>>
DSinCos(x) ==
    IF x.k # "num" THEN <<DNaN, DNaN>>
    ELSE IF IsZeroD(x) THEN <<DZero, DInt(1)>>
    ELSE Let(SinCos(DAbs(x), HighWord(x),
                    IF HighWord(x) > \h413921FB THEN Large(DAbs(x)) ELSE <<>>),
             LAMBDA sc : Odd(x, sc))

\* Math.cos(x)
DCos(x) == DSinCos(x)[2]

\* Math.exp(x): Infinity beyond the threshold of the overflow and 0 below
\* that of the underflow
DExp(x) ==
    IF x.k = "nan" THEN DNaN
    ELSE IF x.k = "inf" THEN (IF x.s > 0 THEN x ELSE DZero)
    ELSE IF DLt(FdConst.o_threshold, x) THEN DInf(1)
    ELSE IF DLt(x, FdConst.u_threshold) THEN DZero
    ELSE Stages("exp", HighWord(x), <<>>, [arg |-> x] @@ FdConst).exp

\* the 20 high bits of the fraction of x
HighFraction(x) == NToInt(NShr(x.m, 32)) - 2 ^ 20

\* x = 2^k * (1 + f) with sqrt(2)/2 < 1 + f < sqrt(2): <<k, 1 + f>>
LogParts(x) ==
    IF HighFraction(x) + \h95F64 >= 2 ^ 20
    THEN <<x.e + 53, Num(1, x.m, 0 - 53)>>
    ELSE <<x.e + 52, Num(1, x.m, 0 - 52)>>

\* Math.log(x)
DLog(x) ==
    IF x.k = "nan" THEN DNaN
    ELSE IF IsZeroD(x) THEN DInf(0 - 1)
    ELSE IF x.s < 0 THEN DNaN
    ELSE IF x.k = "inf" THEN x
    ELSE Let(LogParts(x), LAMBDA kx :
             Stages("log", HighFraction(x), kx,
                    [x |-> kx[2], dk |-> DInt(kx[1])] @@ FdConst).log)

\* Math.asin(x)
DAsin(x) ==
    IF x.k # "num" \/ DLt(FdConst.one, DAbs(x)) THEN DNaN
    ELSE IF IsZeroD(x) THEN x
    ELSE Stages("asin", HighWord(x), <<>>, [arg |-> x] @@ FdConst).asin

\* the parts of x > 0 for pow: k tells whether |x| is taken near 1.5, n is
\* the power of two, ix the high word of ax
PowParts(x) ==
    Let(HighFraction(x), LAMBDA j :
        IF j <= \h3988E THEN [k |-> 0, n |-> x.e + 52, ix |-> \h3FF00000 + j]
        ELSE IF j < \hBB67A THEN [k |-> 1, n |-> x.e + 52, ix |-> \h3FF00000 + j]
        ELSE [k |-> 0, n |-> x.e + 53, ix |-> \h3FE00000 + j])

\* the registers of pow for x > 0 with the parts c
PowGiven(x, y, c) ==
    [ax |-> Num(1, x.m, x.e - c.n),
     bp |-> IF c.k = 1 THEN FdConst.bp1 ELSE FdConst.one,
     dp_h |-> IF c.k = 1 THEN FdConst.dp_h1 ELSE DZero,
     dp_l |-> IF c.k = 1 THEN FdConst.dp_l1 ELSE DZero,
     t_h |-> Words(1, c.ix \div 2 + \h20000000 + \h00080000 + c.k * 2 ^ 18, 0, 0),
     fn |-> DInt(c.n), y |-> y]

\* the result of pow from its registers: Infinity when y * log2(x) = p_h +
\* p_l, about z, is beyond 1024, 0 when it is below -1075
PowResult(regs) ==
    IF HighWord(regs.sum) >= \h40900000 /\ regs.sum.s > 0
    THEN (IF DLt(DInt(1024), regs.sum)
             \/ DLt(DSub(regs.sum, regs.p_h0), DAdd(regs.p_l, FdConst.ovt))
          THEN DInf(1) ELSE regs.pow)
    ELSE IF HighWord(regs.sum) >= \h4090CC00 /\ regs.sum.s < 0
    THEN (IF DLt(regs.sum, DInt(0 - 1075))
             \/ ~DLt(DSub(regs.sum, regs.p_h0), regs.p_l)
          THEN DZero ELSE regs.pow)
    ELSE regs.pow

\* Math.pow(x, y) for x >= 0 or NaN and a finite y that is not 0, 1, -1, 2
\* or 0.5, as the exponents 1.25 and 1 / 1.25 of the source are
DPow(x, y) ==
    IF x.k = "nan" THEN DNaN
    ELSE IF IsZeroD(x) THEN (IF y.s < 0 THEN DInf(1) ELSE DZero)
    ELSE IF x.k = "inf" THEN (IF y.s < 0 THEN DZero ELSE x)
    ELSE IF x = FdConst.one THEN x
    ELSE Let(PowParts(x), LAMBDA c :
             PowResult(Stages("pow", c.ix, c, PowGiven(x, y, c) @@ FdConst)))

\* ------------------------------------------------- sunTimes: the date stage
\* The dates are computed in doubles, as the source computes them.  The
\* civil day is dayNumber days after 2000-01-01 and the runtime is tz hours
\* ahead of UTC at its local noon.  An angle in degrees enters the
\* fixed-point arithmetic as a whole number of millidegrees.
SunLiterals ==
    [dayMs |-> <<1, 0, 86400000, 0>>, halfDay |-> <<1, 0, 5, 1>>, J1970 |-> <<1, 0, 24405875, 1>>,
     J2000 |-> <<1, 0, 2451545, 0>>,
     M0 |-> <<1, 0, 3575291, 4>>, M1 |-> <<1, 0, 98560028, 8>>,
     theta0 |-> <<1, 0, 28016, 2>>, theta1 |-> <<1, 3, 609856235, 7>>,
     turn |-> <<1, 0, 360, 0>>, perTurn |-> <<1, 2777777, 777777778, 18>>,
     perDeg |-> <<1, 0, 1000, 0>>,
     turnMdeg |-> <<1, 0, 360000, 0>>]

\* the numbers of toJulian, toDays, solarMeanAnomaly, siderealTime and
\* sunTimes
SunConst ==
    [name \in DOMAIN SunLiterals |->
        Let(SunLiterals[name], LAMBDA l : Dec(l[1], l[2], l[3], l[4]))]

\* the values of the names of SunConst and of given after the steps prog
Computed(prog, given) == Run(prog, 1, Len(prog), given @@ SunConst)

\* new Date(y, m, d0, 12, 0, 0, 0).valueOf(): the milliseconds from
\* 1970-01-01T00:00Z to local noon of the civil day; a valid Date for the
\* days of the model
noonLocal(dayNumber, tz) ==
    DAdd(DMul(DInt(dayNumber + 10957), SunConst.dayMs),
         DInt((12 - tz) * 3600000))

\* toDays(date) = toJulian(date) - 2451545.0 with toJulian(date) =
\* date / 86400000 - 0.5 + 2440587.5
toDays(date) ==
    Computed(<< <<"J", "/", "date", "dayMs">>, <<"J", "-", "J", "halfDay">>,
                <<"J", "+", "J", "J1970">>, <<"d", "-", "J", "J2000">> >>,
             [date |-> date]).d

\* x degrees less its whole turns, as the nearest whole number of
\* millidegrees in 0 .. 360000; the whole turns are counted with 1 / 360
\* rounded, which may miss one
Millidegrees(x) ==
    Let(Computed(<< <<"n", "*", "x", "perTurn">>, <<"n", "int", "n", "n">>,
                    <<"n", "*", "n", "turn">>, <<"r", "-", "x", "n">>,
                    <<"up", "+", "r", "turn">>, <<"down", "-", "r", "turn">> >>,
                 [x |-> x]),
        LAMBDA c :
            TruncInt(DAdd(DMul(IF c.r.s < 0 THEN c.up
                               ELSE IF c.down.s < 0 THEN c.r ELSE c.down,
                               SunConst.perDeg),
                          SunConst.halfDay)))

\* rad * (357.5291 + 0.98560028 * d)
solarMeanAnomaly(d) ==
    Millidegrees(Computed(<< <<"M", "*", "M1", "d">>, <<"M", "+", "M0", "M">> >>,
                          [d |-> d]).M)

\* M + C + P + PI
eclipticLongitude(M) ==
    LET C == (19148 * Sin(M)) \div (10 * TrigScale)
             + (20 * Sin(2 * M)) \div TrigScale
             + (3 * Sin(3 * M)) \div (10 * TrigScale)
        P == 102937
    IN  M + C + P + HalfTurn

\* obliquity e = 23.4397 degrees
Obliquity == 23440

\* asin(sin(e) * sin(L))
declination(L) == Asin((Sin(Obliquity) * Sin(L)) \div TrigScale)

\* atan2(sin(L) * cos(e), cos(L))
rightAscension(L) == Atan2((Sin(L) * Cos(Obliquity)) \div TrigScale, Cos(L))

\* rad * (280.16 + 360.9856235 * d) - lw
siderealTime(d, lw) ==
    Millidegrees(Computed(<< <<"th", "*", "theta1", "d">>,
                             <<"th", "+", "theta0", "th">> >>, [d |-> d]).th)
    - lw

\* sin(phi) * sin(dec) + cos(phi) * cos(dec) * cos(H), scaled by TrigScale
SinAltitude(phi, dec, H) ==
    (Sin(phi) * Sin(dec)) \div TrigScale
    + (((Cos(phi) * Cos(dec)) \div TrigScale) * Cos(H)) \div TrigScale

\* the declination taken for the altitude
azAltDeclination(d, lat, lon) ==
    declination(eclipticLongitude(solarMeanAnomaly(d)))

\* azAlt(d, lat, lon).altitude
azAltAltitude(d, lat, lon) ==
    LET lw == 0 - lon
        L == eclipticLongitude(solarMeanAnomaly(d))
        H == siderealTime(d, lw) - rightAscension(L)
    IN  Asin(SinAltitude(lat, declination(L), H))

\* an argument of acos beyond every finite bound (division by a zero cosine)
Infinity == 1000000000

\* (sin(h) - sin(phi) * sin(dec)) / (cos(phi) * cos(dec)), scaled by TrigScale
hourAngleArg(h, phi, dec) ==
    LET num == Sin(h) * TrigScale - Sin(phi) * Sin(dec)
        den == (Cos(phi) * Cos(dec)) \div 1000
    IN  IF den = 0
        THEN (IF num > 0 THEN Infinity ELSE IF num < 0 THEN 0 - Infinity ELSE NaN)
        ELSE (num * 10) \div den

\* Math.acos((sin(h) - sin(phi) * sin(dec)) / (cos(phi) * cos(dec)))
hourAngle(h, phi, dec) == Acos(hourAngleArg(h, phi, dec))

\* h0 = 0: the geometric horizon, without refraction and solar radius
GeometricHorizon == 0 * MdegPerDeg

\* h0 = -0.833 degrees
SunriseAltitude == 0 - 833

\* A Date or null: <<>> is null, <<ms>> the Date whose time value is ms
\* milliseconds after local noon of the civil day, <<InvalidTime>> the
\* Invalid Date, whose time value is NaN.
NullDate == <<>>

\* the time value NaN: a number beyond the offset of every Date from noon
InvalidTime == 0 - 2000000000

InvalidDate == <<InvalidTime>>

\* the largest time value of a Date, 8.64e15 ms: 100 000 000 days
MaxTime == Dec(1, 8640000, 0, 0)

\* v cut to a whole number, towards 0
WholeMs(v) ==
    IF v.e >= 0 \/ IsZeroD(v) THEN v
    ELSE RoundSig(v.s, NShr(v.m, 0 - v.e), 0, FALSE)

\* new Date(v): the Invalid Date for a v that is not finite or is beyond
\* MaxTime, else the Date of v cut to a whole number of milliseconds
NewDate(v, noon) ==
    IF v.k # "num" \/ DLt(MaxTime, DAbs(v)) THEN InvalidDate
    ELSE <<TruncInt(DSub(WholeMs(v), noon))>>

\* fromJulian(J) = new Date((J + 0.5 - 2440587.5) * 86400000), as a Date of
\* the day with the local noon noon
fromJulian(J, noon) ==
    NewDate(Computed(<< <<"ms", "+", "J", "halfDay">>,
                        <<"ms", "-", "ms", "J1970">>,
                        <<"ms", "*", "ms", "dayMs">> >>, [J |-> J]).ms,
            noon)

\* Jtransit = 2451545.0 + d + (lw + rightAscension(L)) / (2 * Math.PI),
\* Jrise = Jtransit - H / (2 * Math.PI), Jset = Jtransit + H / (2 * Math.PI),
\* for a = lw + rightAscension(L) and H in millidegrees
JulianSteps ==
    << <<"x", "/", "a", "turnMdeg">>, <<"Jtransit", "+", "J2000", "d">>,
       <<"Jtransit", "+", "Jtransit", "x">>, <<"y", "/", "H", "turnMdeg">>,
       <<"Jrise", "-", "Jtransit", "y">>, <<"Jset", "+", "Jtransit", "y">> >>

\* (sunset - sunrise) / 3600000 in milliseconds: NaN when a Date is invalid
Daylight(sunrise, sunset) ==
    IF sunrise = InvalidDate \/ sunset = InvalidDate THEN NaN
    ELSE sunset[1] - sunrise[1]

\* the result of the branch with a sunrise
DayResult(sunrise, sunset, solarNoon) ==
    [sunrise |-> sunrise, sunset |-> sunset, solarNoon |-> solarNoon,
     daylight |-> Daylight(sunrise, sunset),
     alwaysUp |-> FALSE, alwaysDown |-> FALSE]

\* The result of the polar branch: no Dates, daylight 0, alwaysDown: !alwaysUp
PolarResult(alwaysUp) ==
    [sunrise |-> NullDate, sunset |-> NullDate, solarNoon |-> NullDate,
     daylight |-> 0, alwaysUp |-> alwaysUp, alwaysDown |-> ~alwaysUp]

\* the rest of sunTimes for the local noon of the day
SunTimesAt(noon, d, lat, lon) ==
    LET lw == 0 - lon
        L == eclipticLongitude(solarMeanAnomaly(d))
        dec == declination(L)
        H == hourAngle(SunriseAltitude, lat, dec)
    IN  IF IsNaN(H)
        THEN PolarResult(Gt(azAltAltitude(d, lat, lon), SunriseAltitude))
        ELSE Let(Computed(JulianSteps,
                          [d |-> d, a |-> DInt(lw + rightAscension(L)),
                           H |-> DInt(H)]),
                 LAMBDA j : DayResult(fromJulian(j.Jrise, noon),
                                      fromJulian(j.Jset, noon),
                                      fromJulian(j.Jtransit, noon)))

\* sunTimes(date, lat, lon); lat and lon in millidegrees, daylight in ms
sunTimes(dayNumber, tz, lat, lon) ==
    Let(noonLocal(dayNumber, tz), LAMBDA noon :
        Let(toDays(noon), LAMBDA d : SunTimesAt(noon, d, lat, lon)))

\* ---------------------------------------------------- sunTimes, as a call
\* 2024-03-20, counted in days from 2000-01-01
BaseDay == 8845

\* 93 days on: 2024-06-21, 2024-09-22, 2024-12-24, ...
DayStride == 93

\* the number of further civil days tried
MaxDayStep == 3

SunDays == {BaseDay + DayStride * k : k \in 0 .. MaxDayStep}

\* the last full civil day of the range of Date, which is 100 000 000 days
\* either side of 1970-01-01: 275760-09-12, whose local noon is a Date in
\* every time zone but whose evening may lie beyond the range
EdgeDays == {100000000 - 10957 - 1}

\* the runtime's offset from UTC at local noon, hours
TimeZones == {0 - 12, 0 - 5, 0, 2, 14}

LatStep == 15

\* latitudes -90 .. 90 degrees
Lats == {LatStep * MdegPerDeg * k : k \in (0 - 6) .. 6}

LonStep == 45

\* longitudes -180 .. 180 degrees
Lons == {LonStep * MdegPerDeg * k : k \in (0 - 4) .. 4}

NoDayTimes ==
    [sunrise |-> NullDate, sunset |-> NullDate, solarNoon |-> NullDate,
     daylight |-> 0, alwaysUp |-> FALSE, alwaysDown |-> FALSE]

NoSunIn == [day |-> 0, tz |-> 0, lat |-> 0, lon |-> 0]

SunIdle == sunPc = "idle" /\ sunIn = NoSunIn /\ sunOut = NoDayTimes

SunStart ==
    /\ sunPc = "call"
    /\ sunIn \in [day : SunDays \cup EdgeDays, tz : TimeZones, lat : Lats,
                  lon : Lons]
    /\ sunOut = NoDayTimes

\* sunTimes(date, lat, lon) is called and returns
SunTimesCall ==
    /\ sunPc = "call"
    /\ sunOut' = sunTimes(sunIn.day, sunIn.tz, sunIn.lat, sunIn.lon)
    /\ sunPc' = "done"
    /\ UNCHANGED <<sunIn, scanVars, orbVars, calcVars, appVars>>

\* Math.PI
MathPI == Dec(1, 3141592, 653589793, 15)

\* the literals of ORBITS, each <<sign, digits from 10^9 up, digits below
\* 10^9, decimals>>
OrbitLiterals ==
    [mercury |->
        [a |-> <<1, 0, 387098, 6>>, e0 |-> <<1, 0, 205635, 6>>,
         eRate |-> <<1, 0, 559, 12>>, M0 |-> <<1, 0, 1686562, 4>>,
         n |-> <<1, 40, 923344368, 10>>],
     venus |->
        [a |-> <<1, 0, 72333, 5>>, e0 |-> <<1, 0, 6773, 6>>,
         eRate |-> <<0 - 1, 0, 1302, 12>>, M0 |-> <<1, 0, 480052, 4>>,
         n |-> <<1, 16, 21302244, 10>>],
     earth |->
        [a |-> <<1, 0, 1, 0>>, e0 |-> <<1, 0, 16709, 6>>,
         eRate |-> <<0 - 1, 0, 1151, 12>>, M0 |-> <<1, 0, 356047, 3>>,
         n |-> <<1, 9, 856002585, 10>>],
     mars |->
        [a |-> <<1, 0, 1523688, 6>>, e0 |-> <<1, 0, 93405, 6>>,
         eRate |-> <<1, 0, 2516, 12>>, M0 |-> <<1, 0, 186021, 4>>,
         n |-> <<1, 5, 240207766, 10>>],
     jupiter |->
        [a |-> <<1, 0, 520256, 5>>, e0 |-> <<1, 0, 48498, 6>>,
         eRate |-> <<1, 0, 4469, 12>>, M0 |-> <<1, 0, 19895, 3>>,
         n |-> <<1, 0, 830853001, 10>>],
     saturn |->
        [a |-> <<1, 0, 955475, 5>>, e0 |-> <<1, 0, 55546, 6>>,
         eRate |-> <<0 - 1, 0, 9499, 12>>, M0 |-> <<1, 0, 316967, 3>>,
         n |-> <<1, 0, 334442282, 10>>],
     uranus |->
        [a |-> <<1, 0, 1918171, 5>>, e0 |-> <<1, 0, 47318, 6>>,
         eRate |-> <<1, 0, 745, 11>>, M0 |-> <<1, 0, 1425905, 4>>,
         n |-> <<1, 0, 11725806, 9>>],
     neptune |->
        [a |-> <<1, 0, 3005826, 5>>, e0 |-> <<1, 0, 8606, 6>>,
         eRate |-> <<1, 0, 215, 11>>, M0 |-> <<1, 0, 2602471, 4>>,
         n |-> <<1, 0, 5995147, 9>>],
     pluto |->
        [a |-> <<1, 3, 948168677, 8>>, e0 |-> <<1, 0, 24880766, 8>>,
         eRate |-> <<1, 0, 0, 0>>, M0 |-> <<1, 0, 1453, 2>>,
         n |-> <<1, 0, 396, 5>>]]

\* ORBITS: every literal is the double nearest to its decimal value
ORBITS ==
    [p \in DOMAIN OrbitLiterals |->
        [name \in DOMAIN OrbitLiterals[p] |->
            Let(OrbitLiterals[p][name], LAMBDA l : Dec(l[1], l[2], l[3], l[4]))]]

\* the own property names of ORBITS
CatalogKeys == DOMAIN OrbitLiterals

\* property names every object literal inherits from Object.prototype
InheritedKeys ==
    {"constructor", "toString", "valueOf", "hasOwnProperty", "__proto__"}

\* names that are neither
AbsentKeys == {"vulcan", "Mercury", ""}

PlanetKeys == CatalogKeys \cup InheritedKeys \cup AbsentKeys

\* an inherited member: an object or function without a, e0, eRate, M0, n
\* (reading them gives undefined, and arithmetic on undefined gives NaN)
InheritedMember ==
    [a |-> DNaN, e0 |-> DNaN, eRate |-> DNaN, M0 |-> DNaN, n |-> DNaN]

\* ORBITS[planetKey]: own properties, then the prototype chain; <<>> is
\* undefined.
Property(key) ==
    IF key \in CatalogKeys THEN <<ORBITS[key]>>
    ELSE IF key \in InheritedKeys THEN <<InheritedMember>>
    ELSE <<>>

\* !el
Falsy(el) == el = <<>>

\* e = el.e0 + el.eRate * d, d = daysSinceJ2000(date) a whole number of days
Eccentricity(el, d) == DAdd(el.e0, DMul(el.eRate, DInt(d)))

\* Mdeg = el.M0 + el.n * d; Mrad = (Mdeg * Math.PI) / 180
MeanAnomaly(el, d) ==
    DDiv(DMul(DAdd(el.M0, DMul(el.n, DInt(d))), MathPI), DInt(180))

\* for (let i = 0; i < 12; i++)
KeplerMaxIter == 12

\* 1e-10
KeplerTol == Dec(1, 0, 1, 10)

\* dE = -f / fp with f = E - e * Math.sin(E) - Mrad and
\* fp = 1 - e * Math.cos(E)
KeplerDelta(E, e, M) ==
    Let(DSinCos(E), LAMBDA sc :
    Let(DSub(DSub(E, DMul(e, sc[1])), M), LAMBDA fE :
    Let(DSub(DInt(1), DMul(e, sc[2])), LAMBDA fp :
        DDiv(DNeg(fE), fp))))

\* Math.abs(dE) < 1e-10
Small(dE) == DLt(DAbs(dE), KeplerTol)

\* if (Math.abs(dE) < 1e-10) break; ahead of E += dE
CorrectedUnlessSmall(E, dE) == IF Small(dE) THEN E ELSE DAdd(E, dE)

\* E += dE
Corrected(E, dE) == DAdd(E, dE)

\* r = el.a * (1 - e * Math.cos(E))
Radius(el, e, E) ==
    Let(DCos(E), LAMBDA c : DMul(el.a, DSub(DInt(1), DMul(e, c))))

\* null
NullNumber == <<>>

\* new Date(-8639813160000000), 100008795 days before J2000.0: one of the
\* earliest instants a Date holds (about the year -271816)
RemoteDay == 0 - 100008795

\* new Date(-8595197582400000), 99492411 days before J2000.0 (about the year
\* -270400): Saturn's e0 + eRate * d is 1.000624 and the twelve iterations of
\* solveKeplerE end next to a zero of 1 - e * cos(E)
NearDay == 0 - 99492411

\* whole days from J2000.0 to the instant passed as date
OrbitDays == {RemoteDay, NearDay, 0 - 3653, 0} \cup SunDays

OrbitStart ==
    /\ orbPc = "call"
    /\ orbKey \in PlanetKeys
    /\ orbDay \in OrbitDays
    /\ orbM = DZero /\ orbEcc = DZero /\ orbE = DZero /\ orbDE = DZero
    /\ orbI = 0
    /\ orbSolved = FALSE
    /\ orbOut = NullNumber

OrbitIdle ==
    /\ orbPc = "idle" /\ orbKey = "" /\ orbDay = 0
    /\ orbM = DZero /\ orbEcc = DZero /\ orbE = DZero /\ orbDE = DZero
    /\ orbI = 0
    /\ orbSolved = FALSE
    /\ orbOut = NullNumber

\* heliocentricDistanceAU up to the call of solveKeplerE (planets.js 164-170
\* and 152)
HelioCall ==
    /\ orbPc = "call"
    /\ LET el == Property(orbKey) IN
       IF Falsy(el)
       THEN /\ orbOut' = NullNumber
            /\ orbPc' = "done"
            /\ UNCHANGED <<orbM, orbEcc, orbE, orbI, orbSolved>>
       ELSE /\ orbEcc' = Eccentricity(el[1], orbDay)
            /\ orbM' = MeanAnomaly(el[1], orbDay)
            /\ orbE' = orbM'
            /\ orbI' = 0
            /\ orbSolved' = TRUE
            /\ orbPc' = "kepler"
            /\ UNCHANGED orbOut
    /\ UNCHANGED <<orbKey, orbDay, orbDE, scanVars, sunVars, calcVars, appVars>>

\* one Newton-Raphson iteration of solveKeplerE (planets.js 153-159)
KeplerStep ==
    /\ orbPc = "kepler"
    /\ orbI < KeplerMaxIter
    /\ orbDE' = KeplerDelta(orbE, orbEcc, orbM)
    /\ orbE' = Corrected(orbE, orbDE')
    /\ orbI' = orbI + 1
    /\ orbPc' = IF Small(orbDE') \/ orbI' = KeplerMaxIter
                THEN "return" ELSE "kepler"
    /\ UNCHANGED <<orbKey, orbDay, orbM, orbEcc, orbSolved, orbOut,
                   scanVars, sunVars, calcVars, appVars>>

\* return E; r = el.a * (1 - e * Math.cos(E)); return r (planets.js 160, 171-172)
HelioReturn ==
    /\ orbPc = "return"
    /\ orbOut' = <<Radius(Property(orbKey)[1], orbEcc, orbE)>>
    /\ orbPc' = "done"
    /\ UNCHANGED <<orbKey, orbDay, orbM, orbEcc, orbE, orbDE, orbI, orbSolved,
                   scanVars, sunVars, calcVars, appVars>>

OrbitNext == HelioCall \/ KeplerStep \/ HelioReturn

\* ========================================================= target altitude
\* solveKeplerE as one call: the passes of its loop, each the one of
\* KeplerStep.  st is <<E, whether the loop has been left>> and n the number
\* of passes still allowed; a pass computes dE, adds it to E and leaves the
\* loop when |dE| < 1e-10.
RECURSIVE solveKeplerFrom(_, _, _, _)
solveKeplerFrom(st, e, M, n) ==
    CASE n = 0 \/ st[2] -> st
      [] n = 1 -> Let(KeplerDelta(st[1], e, M),
                      LAMBDA dE : <<Corrected(st[1], dE), Small(dE)>>)
      [] OTHER -> Let(solveKeplerFrom(st, e, M, n \div 2),
                      LAMBDA half : solveKeplerFrom(half, e, M, n - n \div 2))

\* let E = Mrad; for (let i = 0; i < 12; i++) { ... } return E
solveKeplerE(M, e) == solveKeplerFrom(<<M, FALSE>>, e, M, KeplerMaxIter)[1]

\* heliocentricDistanceAU(planetKey, date) as one call, d = daysSinceJ2000(date)
heliocentricDistanceAU(planetKey, d) ==
    Let(Property(planetKey), LAMBDA el :
        IF Falsy(el) THEN NullNumber
        ELSE Let(Eccentricity(el[1], d), LAMBDA e :
             Let(MeanAnomaly(el[1], d), LAMBDA M :
             Let(solveKeplerE(M, e), LAMBDA E :
                 <<Radius(el[1], e, E)>>))))

\* 1 AU in the unit of the distances below, 1e-4 AU
OneAU == 10000

\* the number a as an integer, 2^30 standing for the numbers from 2^30 on
Whole(a) == IF NBitLen(a) > 30 THEN 2 ^ 30 ELSE NToInt(a)

\* |r| of a finite number r of the source in units of 10^-k AU, to the
\* nearest unit
UnitsAt(r, k) ==
    Whole(IF r.e >= 0 THEN NShl(NMul(r.m, NPow10(k)), r.e)
          ELSE NShr(NAdd(NMul(r.m, NPow10(k)), NShl(<<1>>, 0 - r.e - 1)),
                    0 - r.e))

\* the decimals that show the first digits of r: four, the resolution of
\* OneAU, and more for a distance below 0.1 AU
Decimals(r) ==
    CHOOSE k \in 4 .. 18 :
        /\ UnitsAt(r, k) >= 1000
        /\ \A j \in 4 .. k - 1 : UnitsAt(r, j) < 1000

\* !r of the value heliocentricDistanceAU returns: null, NaN and 0 are
\* falsy
FalsyNumber(r) == r = NullNumber \/ r[1].k = "nan" \/ IsZeroD(r[1])

\* PLANETS[i].au by key, in the unit of OneAU
PLANETS ==
    [mercury |-> 3870, venus |-> 7230, earth |-> 10000, mars |-> 15240,
     jupiter |-> 52030, saturn |-> 95370, uranus |-> 191910,
     neptune |-> 300700, pluto |-> 394800]

\* 39.48
PlutoMeanAU == 394800

\* PLANETS.find((p) => p.key === planetKey)?.au: <<>> is undefined
FindAu(planetKey) ==
    IF planetKey \in DOMAIN PLANETS THEN <<PLANETS[planetKey]>> ELSE <<>>

\* x || y on an optional number: null, undefined, NaN and 0 are falsy
OrElse(x, y) == IF x = <<>> \/ x[1] = NaN \/ x[1] = 0 THEN y ELSE x[1]

\* The irradiances and illuminances span many decades: a positive number is
\* carried as LogScale times its decimal logarithm.  Products and quotients
\* are sums and differences, Math.log10 reads the number off.
LogScale == 10000

\* LogScale * log10(i / 10), i = 10 .. 100
LogTab ==
    <<0, 414, 792, 1139, 1461, 1761, 2041, 2304, 2553, 2788,
      3010, 3222, 3424, 3617, 3802, 3979, 4150, 4314, 4472, 4624,
      4771, 4914, 5051, 5185, 5315, 5441, 5563, 5682, 5798, 5911,
      6021, 6128, 6232, 6335, 6435, 6532, 6628, 6721, 6812, 6902,
      6990, 7076, 7160, 7243, 7324, 7404, 7482, 7559, 7634, 7709,
      7782, 7853, 7924, 7993, 8062, 8129, 8195, 8261, 8325, 8388,
      8451, 8513, 8573, 8633, 8692, 8751, 8808, 8865, 8921, 8976,
      9031, 9085, 9138, 9191, 9243, 9294, 9345, 9395, 9445, 9494,
      9542, 9590, 9638, 9685, 9731, 9777, 9823, 9868, 9912, 9956,
      10000>>

Pow10 == <<1, 10, 100, 1000, 10000, 100000, 1000000, 10000000, 100000000,
           1000000000>>

\* the k with 10^k <= n < 10^(k+1)
Decade(n) == CHOOSE k \in 0 .. 9 : (n \div Pow10[k + 1]) \in 1 .. 9

\* LogScale * log10(n) of a whole number n >= 1, linear between the entries
\* of LogTab
Log10Of(n) ==
    LET k    == Decade(n)
        mant == IF k >= 3 THEN n \div Pow10[k - 2] ELSE n * Pow10[4 - k]
        i    == mant \div 100
    IN  k * LogScale + LogTab[i - 9]
          + ((LogTab[i - 8] - LogTab[i - 9]) * (mant % 100)) \div 100

\* a distance r (unit of OneAU, not 0) as a logarithm of AU; the code uses
\* a distance only through r * r
Lg(r) == Log10Of(Abs(r)) - Log10Of(OneAU)

\* the same of a number r of the source, not 0 and not NaN, read off its
\* first digits
LgOfNumber(r) ==
    IF r.k = "inf" THEN Lg(Infinity)
    ELSE Let(Decimals(r), LAMBDA k : Log10Of(UnitsAt(r, k)) - k * LogScale)

\* x || y as a logarithm, x the value heliocentricDistanceAU returns and y
\* in the unit of OneAU
LgOrElse(x, y) == IF FalsyNumber(x) THEN Lg(y) ELSE LgOfNumber(x[1])

\* 1 / (au * au)
planetIrradianceScale(au) == IF au = NaN THEN NaN ELSE 0 - 2 * au

Max(a, b) == IF a >= b THEN a ELSE b

Min(a, b) == IF a <= b THEN a ELSE b

\* planetIrradianceScale(40): the reference distance rounded to whole AU
PlutoRefRounded == planetIrradianceScale(Lg(400000))

\* S_PLUTO_REF = planetIrradianceScale(39.48)
S_PLUTO_REF == planetIrradianceScale(Lg(PlutoMeanAU))

\* A = -1.5, in millidegrees
H_PLUTO == 0 - 1500

\* Math.max(-12, Math.min(30, alpha)) with
\* alpha = A + B * Math.log10(Math.max(1e-9, S / S_PLUTO_REF)), B = 1.5
targetElevationForPlanet(planetAU) ==
    LET S     == planetIrradianceScale(planetAU)
        ratio == Max(0 - 9 * LogScale, S - S_PLUTO_REF)
        alpha == H_PLUTO + (15 * ratio) \div 100
    IN  Max(0 - 12 * MdegPerDeg, Min(30 * MdegPerDeg, alpha))

\* PLANETS.find((p) => p.key === planetKey)?.au || 1
FallbackAu(planetKey) == OrElse(FindAu(planetKey), OneAU)

\* targetElevationForPlanetKey(planetKey, date)
targetElevationForPlanetKey(planetKey, d) ==
    Let(heliocentricDistanceAU(planetKey, d), LAMBDA r :
        IF FalsyNumber(r)
        THEN targetElevationForPlanet(Lg(FallbackAu(planetKey)))
        ELSE targetElevationForPlanet(LgOfNumber(r[1])))

\* planetKey.toLowerCase() on the keys of the model
ToLowerCase(planetKey) ==
    CASE planetKey = "Mercury"        -> "mercury"
      [] planetKey = "toString"       -> "tostring"
      [] planetKey = "valueOf"        -> "valueof"
      [] planetKey = "hasOwnProperty" -> "hasownproperty"
      [] OTHER                        -> planetKey

\* EARTH_NOON_LUX = 120000
EARTH_NOON_LUX == Log10Of(120000)

\* m = (-6 - 0) / (Math.log10(400) - Math.log10(120000)), millidegrees per
\* decade
Slope ==
    ((0 - 6) * MdegPerDeg * LogScale) \div (Log10Of(400) - Log10Of(120000))

\* delta = m * (Math.log10(Lx) - Math.log10(Lp)) with
\* Lx = EARTH_NOON_LUX * planetIrradianceScale(r) and Lp the same of rPluto
Delta(r, rPluto) ==
    LET Lx == EARTH_NOON_LUX + planetIrradianceScale(r)
        Lp == EARTH_NOON_LUX + planetIrradianceScale(rPluto)
    IN  (Slope * (Lx - Lp)) \div LogScale

\* heliocentricDistanceAU("pluto", date) || 39.48
PlutoDistance(d) ==
    LgOrElse(heliocentricDistanceAU("pluto", d), PlutoMeanAU)

\* Math.max(-18, Math.min(85, hTarget))
ClampApparent(hTarget) ==
    Max(0 - 18 * MdegPerDeg, Min(85 * MdegPerDeg, hTarget))

\* targetApparentAltitudeForPlanetKey(planetKey, date) of app.js
targetApparentAltitudeForPlanetKey(planetKey, d) ==
    IF planetKey = "" THEN NullNumber
    ELSE Let(ToLowerCase(planetKey), LAMBDA key :
         IF key = "earth" THEN NullNumber
         ELSE Let(LgOrElse(heliocentricDistanceAU(key, d), OneAU), LAMBDA r :
              Let(PlutoDistance(d), LAMBDA rPluto :
                  <<ClampApparent(H_PLUTO + Delta(r, rPluto))>>)))

\* targetAltDeg of nextPlanetTime(date, lat, lon, au, key); key "" stands for
\* the argument left out, au is PLANETS[i].au as a logarithm
nextPlanetTarget(au, key, d) ==
    IF key # "" THEN targetApparentAltitudeForPlanetKey(key, d)
    ELSE Let(PlutoDistance(d), LAMBDA rPluto : <<H_PLUTO + Delta(au, rPluto)>>)

\* ------------------------------------------------ calls of the functions
\* targetElevationForPlanet is called with distances from 10^-MaxLogStep/2 AU
\* to 10^MaxLogStep/2 AU, two per decade
MaxLogStep == 24

LogDistances ==
    {k * (LogScale \div 2) : k \in (0 - MaxLogStep) .. MaxLogStep}
        \cup {Lg(PLANETS[p]) : p \in DOMAIN PLANETS}

TargetStart ==
    /\ tgtPc = "call"
    /\ tgtOut = NullNumber
    /\ \/ /\ tgtFn = "targetElevationForPlanet"
          /\ tgtKey = "" /\ tgtDay = 0
          /\ tgtAu \in LogDistances
       \/ /\ tgtFn \in {"targetElevationForPlanetKey",
                        "targetApparentAltitudeForPlanetKey"}
          /\ tgtKey \in PlanetKeys /\ tgtDay \in OrbitDays
          /\ tgtAu = 0
       \* nextPlanetTime(date, lat, lon, p.au, p.key) and
       \* nextPlanetTime(date, state.lat, state.lon, p.au), p of PLANETS
       \/ /\ tgtFn = "nextPlanetTime"
          /\ tgtDay \in OrbitDays
          /\ \E p \in DOMAIN PLANETS :
                tgtAu = Lg(PLANETS[p]) /\ tgtKey \in {p, ""}

TargetIdle ==
    /\ tgtPc = "idle" /\ tgtFn = "" /\ tgtKey = "" /\ tgtDay = 0
    /\ tgtAu = 0 /\ tgtOut = NullNumber

TargetReturn(out) ==
    /\ tgtOut' = out
    /\ tgtPc' = "done"
    /\ UNCHANGED <<tgtFn, tgtKey, tgtDay, tgtAu, luxVars,
                   scanVars, sunVars, orbVars, appVars>>

TargetElevationCall ==
    /\ tgtPc = "call" /\ tgtFn = "targetElevationForPlanet"
    /\ TargetReturn(<<targetElevationForPlanet(tgtAu)>>)

TargetElevationKeyCall ==
    /\ tgtPc = "call" /\ tgtFn = "targetElevationForPlanetKey"
    /\ TargetReturn(<<targetElevationForPlanetKey(tgtKey, tgtDay)>>)

TargetApparentCall ==
    /\ tgtPc = "call" /\ tgtFn = "targetApparentAltitudeForPlanetKey"
    /\ TargetReturn(targetApparentAltitudeForPlanetKey(tgtKey, tgtDay))

\* nextPlanetTime up to its first call of findApparentAltitudeCrossings
NextPlanetTimeTarget ==
    /\ tgtPc = "call" /\ tgtFn = "nextPlanetTime"
    /\ TargetReturn(nextPlanetTarget(tgtAu, tgtKey, tgtDay))

TargetNext ==
    \/ TargetElevationCall
    \/ TargetElevationKeyCall
    \/ TargetApparentCall
    \/ NextPlanetTimeTarget

\* ======================================================= illuminance model
\* The illuminance pair is computed in doubles, as the source computes it.
\* const rad = Math.PI / 180
rad == DDiv(MathPI, DInt(180))

\* const deg = 180 / Math.PI
deg == DDiv(DInt(180), MathPI)

\* EARTH_NOON_LUX = 120000, as a double
NoonLux == DInt(120000)

\* TWILIGHT_H0_LUX = 400
TWILIGHT_H0_LUX == DInt(400)

\* TWILIGHT_DECAY_DEG = 1.257
TWILIGHT_DECAY_DEG == Dec(1, 0, 1257, 3)

\* const k = 1.25
K == Dec(1, 0, 125, 2)

\* Math.max(x, y) and Math.min(x, y): NaN when either is
MathMax(x, y) ==
    IF x.k = "nan" \/ y.k = "nan" THEN DNaN ELSE IF DLt(x, y) THEN y ELSE x

MathMin(x, y) ==
    IF x.k = "nan" \/ y.k = "nan" THEN DNaN ELSE IF DLt(y, x) THEN y ELSE x

\* Math.pow is implementation-approximated.  V8 computes it with its port
\* of fdlibm's e_pow.c (DPow), or takes it from the C library (its flag
\* use_std_math_pow), whose result is the double nearest to x^y but for
\* rare cases; the build tells which.
PowBuilds == {"v8", "libm"}

\* a^4 and a^5
NPow4(a) == NMul(NMul(a, a), NMul(a, a))

NPow5(a) == NMul(a, NPow4(a))

\* the order of a * 2^ea and b * 2^eb: -1, 0 or 1
CmpScaled(a, ea, b, eb) ==
    IF ea >= eb THEN NCmp(NShl(a, ea - eb), b) ELSE NCmp(a, NShl(b, eb - ea))

\* a * (2^52 + l) in units of 2^l.e, for a double l with |l| < 2^52
TimesOnePlus(a, l) ==
    IF l.s < 0 THEN NSub(NShl(a, 52 - l.e), NMul(a, l.m))
    ELSE NAdd(NShl(a, 52 - l.e), NMul(a, l.m))

\* the order of x^y and c = <<magnitude, exponent>> for x in (0, 1): for
\* y = k = 5/4 that of x^5 and c^4; for y = 1 / k, the double 2^-52 / 5 above
\* 4/5, that of x^4 * x^(2^-52) and c^5, with 1 + ln(x) / 2^52 for x^(2^-52),
\* which it equals to 2^-90 and better
PowCmp(x, y, c) ==
    IF y = K
    THEN CmpScaled(NPow5(x.m), 5 * x.e, NPow4(c[1]), 4 * c[2])
    ELSE Let(DLog(x), LAMBDA l :
             CmpScaled(TimesOnePlus(NPow4(x.m), l), 4 * x.e + l.e - 52,
                       NPow5(c[1]), 5 * c[2]))

\* the double next above p > 0, and the one next below
NextUp(p) == Carried(1, NAdd(p.m, <<1>>), p.e)

NextDown(p) ==
    IF NBitLen(NSub(p.m, <<1>>)) < SigBits
    THEN Num(1, NSub(NShl(p.m, 1), <<1>>), p.e - 1)
    ELSE Num(1, NSub(p.m, <<1>>), p.e)

\* the number halfway from p > 0 to the double next above
HalfUp(p) == <<NAdd(NShl(p.m, 1), <<1>>), p.e - 1>>

\* the double nearest to x^y, which is V8's result p or next to it
NearestPow(x, y, p) ==
    IF PowCmp(x, y, HalfUp(p)) > 0 THEN NextUp(p)
    ELSE IF PowCmp(x, y, HalfUp(NextDown(p))) < 0 THEN NextDown(p)
    ELSE p

\* Math.pow(x, y) of the build, for the exponents k and 1 / k
MathPow(build, x, y) ==
    Let(DPow(x, y), LAMBDA p :
        IF build = "v8" \/ p.k # "num" \/ IsZeroD(p) \/ x = DInt(1)
        THEN p ELSE NearestPow(x, y, p))

\* Math.pow(ratio, k) in place of Math.pow(ratio, 1 / k)
PowK(build, ratio) == MathPow(build, ratio, K)

\* Math.pow(ratio, 1 / k)
PowInvK(build, ratio) == MathPow(build, ratio, DDiv(DInt(1), K))

\* altDeg > 0 in place of altDeg >= 0
IsAboveHorizon(altDeg) == DLt(DZero, altDeg)

\* if (altDeg >= 0): the daytime formula, the twilight formula otherwise
IsDaytime(altDeg) == altDeg.k # "nan" /\ ~DLt(altDeg, DZero)

\* earthIlluminanceLuxFromAltRad(altRad)
earthIlluminanceLuxFromAltRad(build, altRad) ==
    Let(DMul(altRad, deg), LAMBDA altDeg :
        IF IsDaytime(altDeg)
        THEN DMul(NoonLux, MathPow(build, MathMax(DZero, DSinCos(altRad)[1]), K))
        ELSE DMul(TWILIGHT_H0_LUX, DExp(DDiv(altDeg, TWILIGHT_DECAY_DEG))))

\* illuminanceToAltitudeDeg(targetLux): targetLux is <<>> for null or
\* undefined and <<x>> for the number x; so is the result
illuminanceToAltitudeDeg(build, targetLux) ==
    IF targetLux = <<>> \/ targetLux[1].k # "num" THEN <<>>
    ELSE IF ~DLt(DZero, targetLux[1]) THEN <<DInt(0 - 90)>>
    ELSE IF DLt(targetLux[1], TWILIGHT_H0_LUX)
    THEN <<DMul(TWILIGHT_DECAY_DEG, DLog(DDiv(targetLux[1], TWILIGHT_H0_LUX)))>>
    ELSE Let(PowInvK(build, MathMin(DInt(1), DDiv(targetLux[1], NoonLux))),
             LAMBDA s : <<DMul(DAsin(MathMax(DZero, MathMin(DInt(1), s))), deg)>>)

\* the altitudes tried, in degrees: every AltStep degrees from -90 to 90,
\* and the ones of AltLiterals, <<sign, digits from 10^9 up, digits below
\* 10^9, decimals>>, around the seam, around the altitude of 400 lux, some
\* between and up to 90
AltStep == 5

MaxAltStep == 18

AltLiterals ==
    { <<0 - 1, 0, 5999, 3>>, <<0 - 1, 0, 55, 1>>, <<0 - 1, 0, 3, 0>>,
      <<0 - 1, 0, 1, 0>>, <<0 - 1, 0, 5, 1>>, <<0 - 1, 0, 1, 3>>,
      <<0 - 1, 0, 1, 10>>, <<0 - 1, 0, 1, 15>>, <<0 - 1, 0, 1, 16>>,
      <<0 - 1, 0, 70, 18>>, <<0 - 1, 0, 69, 18>>, <<0 - 1, 0, 5, 17>>,
      <<0 - 1, 0, 1, 17>>, <<0 - 1, 0, 1, 18>>,
      <<1, 0, 1, 17>>, <<1, 0, 1, 3>>, <<1, 0, 1, 1>>, <<1, 0, 5, 1>>,
      <<1, 0, 59, 2>>, <<1, 0, 597, 3>>, <<1, 0, 5976, 4>>,
      <<1, 0, 5977, 4>>, <<1, 0, 598, 3>>, <<1, 0, 6, 1>>, <<1, 0, 1, 0>>,
      <<1, 0, 15, 1>>, <<1, 0, 2, 0>>, <<1, 0, 22, 0>>, <<1, 0, 3875, 2>>,
      <<1, 0, 885, 1>>, <<1, 0, 89, 0>>, <<1, 0, 895, 1>>, <<1, 0, 898, 1>>,
      <<1, 0, 899, 1>>, <<1, 0, 8999, 2>>, <<1, 0, 89999, 3>>,
      <<1, 0, 899999, 4>>, <<1, 0, 8999999, 5>>, <<1, 0, 89999999, 6>>,
      <<1, 0, 899999999, 7>> }

LuxDegrees ==
    {DInt(AltStep * n) : n \in 0 - MaxAltStep .. MaxAltStep}
    \cup {Dec(l[1], l[2], l[3], l[4]) : l \in AltLiterals}

\* the altitudes in radians
LuxAlts == {DMul(h, rad) : h \in LuxDegrees}

\* the illuminances asked of illuminanceToAltitudeDeg directly: null, what
\* is not finite, negative, 0, and lux from below 400 to beyond 120000
LuxTargets ==
    { <<>>, <<DNaN>>, <<DInf(1)>>, <<DInf(0 - 1)>>, <<DInt(0 - 5)>>,
      <<DZero>>, <<Dec(1, 0, 34, 1)>>, <<DInt(400)>>, <<DInt(28500)>>,
      <<DInt(96000)>>, <<DInt(119999)>>,
      <<DInt(120000)>>, <<DInt(150000)>> }

\* earthIlluminanceLuxFromAltRad is called with an altitude
LuxCall ==
    /\ luxPc = "call" /\ luxPow \in PowBuilds
    /\ luxAlt \in {<<a>> : a \in LuxAlts}
    /\ luxE = <<>> /\ luxOut = <<>>

\* illuminanceToAltitudeDeg is called with an illuminance
LuxAsk ==
    /\ luxPc = "lux" /\ luxPow \in PowBuilds
    /\ luxAlt = <<>>
    /\ luxE \in LuxTargets /\ luxOut = <<>>

LuxStart == LuxCall \/ LuxAsk

LuxIdle ==
    /\ luxPc = "idle" /\ luxPow = "v8"
    /\ luxAlt = <<>> /\ luxE = <<>> /\ luxOut = <<>>

LuxForward ==
    /\ luxPc = "call"
    /\ luxE' = <<earthIlluminanceLuxFromAltRad(luxPow, luxAlt[1])>>
    /\ luxPc' = "lux"
    /\ UNCHANGED <<luxPow, luxAlt, luxOut, tgtVars, scanVars, sunVars, orbVars, appVars>>

LuxInverse ==
    /\ luxPc = "lux"
    /\ luxOut' = illuminanceToAltitudeDeg(luxPow, luxE)
    /\ luxPc' = "done"
    /\ UNCHANGED <<luxPow, luxAlt, luxE, tgtVars, scanVars, sunVars, orbVars, appVars>>

LuxNext == LuxForward \/ LuxInverse

\* ========================================================== nextPlanetTime
\* Instants are milliseconds from local noon of the query day.
HourMs == 3600000

CivilDayMs == 24 * HourMs

\* new Date(y, m, date + d): local midnight of day d of the search
MidnightOf(d) == d * CivilDayMs - 12 * HourMs

\* candidates.find((x) => x.getTime() > now.getTime()) || null
FindAfter(c, now) ==
    IF \E i \in 1 .. Len(c) : c[i] > now
    THEN <<c[CHOOSE i \in 1 .. Len(c) :
                /\ c[i] > now
                /\ \A j \in 1 .. i - 1 : ~(c[j] > now)]>>
    ELSE <<>>

\* x.getTime() >= now.getTime() in place of >
IsAtOrAfter(x, now) == x >= now

\* x.getTime() > now.getTime()
IsAfter(x, now) == x > now

\* One pass of the loop over d with the non-empty candidates c: the Instant
\* returned, or <<>> when the loop goes on (part_001 325-348).
TryDay(d, c, target, now) ==
    IF target # <<>> /\ target[1] <= 0
    THEN IF d = 0
         THEN IF IsAfter(c[1], now) THEN <<c[1]>>
              ELSE IF Len(c) >= 2 /\ IsAfter(c[2], now) THEN <<c[2]>>
              ELSE <<>>
         ELSE <<c[1]>>
    ELSE IF d = 0 THEN FindAfter(c, now) ELSE <<c[1]>>

\* sunTimes(day).solarNoon, as an Instant of the query day's scale
SolarNoonOf(in, d) ==
    Let(sunTimes(in.day + d, in.tz, in.lat, in.lon).solarNoon,
        LAMBDA noon : IF noon = <<>> \/ noon = InvalidDate THEN noon
                      ELSE <<d * CivilDayMs + noon[1]>>)

\* The fallback after the loop (part_001 352-360): solar noon of the query
\* day (d = 0) when it is a valid Date after now, otherwise solar noon of
\* the day after, whatever it is
RECURSIVE NoonFrom(_, _, _)
NoonFrom(in, now, d) ==
    Let(SolarNoonOf(in, d),
        LAMBDA noon :
            IF d = 1 THEN noon
            ELSE IF noon # <<>> /\ noon # InvalidDate /\ IsAfter(noon[1], now)
            THEN noon
            ELSE NoonFrom(in, now, 1))

NoonFallback(in, now) == NoonFrom(in, now, 0)

\* the days searched: for (let d = 0; d < 3; d++)
SearchDays == 3

\* The crossings of one day, as the offsets from its midnight in hours: none,
\* a morning one, an evening one, both.
CrossingHours == {<<>>, <<6>>, <<18>>, <<6, 18>>}

CrossingsOf(d, hs) == [i \in 1 .. Len(hs) |-> MidnightOf(d) + hs[i] * HourMs]

\* now, in hours from local noon of the query day: the query day is today for
\* -12 .. 11, a later day for -30, an earlier one for 40
NowHours == {0 - 30, 0 - 9, 0 - 6, 0, 6, 9, 11, 40}

\* the targets: null, Pluto's, the horizon, a daytime one
NextTargets == {<<>>, <<H_PLUTO>>, <<0>>, <<7 * MdegPerDeg>>}

NextPlaces == [day : SunDays, tz : {0}, lat : {0, 60 * MdegPerDeg},
               lon : {0 - HalfTurn, 0, HalfTurn}]

NoCrossings == [d \in 0 .. SearchDays - 1 |-> <<>>]

NextStart ==
    /\ nxtPc = "loop"
    /\ nxtIn \in NextPlaces
    /\ nxtTarget \in NextTargets
    /\ \E h \in NowHours : nxtNow = h * HourMs
    /\ \E hs \in [0 .. SearchDays - 1 -> CrossingHours] :
          nxtCross = [d \in 0 .. SearchDays - 1 |-> CrossingsOf(d, hs[d])]
    /\ nxtD = 0
    /\ nxtOut = <<>>

NextIdle ==
    /\ nxtPc = "idle" /\ nxtIn = NoSunIn /\ nxtTarget = <<>> /\ nxtNow = 0
    /\ nxtCross = NoCrossings /\ nxtD = 0 /\ nxtOut = <<>>

\* One pass of the loop over the days (part_001 317-349)
NextTryDay ==
    /\ nxtPc = "loop"
    /\ nxtD < SearchDays
    /\ LET c == nxtCross[nxtD]
           t == IF c = <<>> THEN <<>> ELSE TryDay(nxtD, c, nxtTarget, nxtNow)
       IN  IF t = <<>>
           THEN nxtD' = nxtD + 1 /\ UNCHANGED <<nxtPc, nxtOut>>
           ELSE nxtOut' = t /\ nxtPc' = "done" /\ UNCHANGED nxtD
    /\ UNCHANGED <<nxtIn, nxtTarget, nxtNow, nxtCross, selVars, geoVars,
                   scanVars, sunVars, orbVars, calcVars>>

\* No day gave an Instant: solar noon today or tomorrow (part_001 350-360)
NextFallback ==
    /\ nxtPc = "loop"
    /\ nxtD = SearchDays
    /\ nxtOut' = NoonFallback(nxtIn, nxtNow)
    /\ nxtPc' = "done"
    /\ UNCHANGED <<nxtIn, nxtTarget, nxtNow, nxtCross, nxtD, selVars, geoVars,
                   scanVars, sunVars, orbVars, calcVars>>

NextTimeNext == NextTryDay \/ NextFallback

\* ===================================================== selecting a planet
\* selectPlanet(p, el) and updatePanelsForSelection(p) for a planet of
\* PLANETS and the date of the date picker.
SelStart ==
    /\ selPc = "select"
    /\ selPlanet \in DOMAIN PLANETS
    /\ selDay \in OrbitDays
    /\ selOverlay = <<>> /\ selPanel = <<>>

SelIdle ==
    /\ selPc = "idle" /\ selPlanet = "" /\ selDay = 0
    /\ selOverlay = <<>> /\ selPanel = <<>>

\* the target of nextPlanetTime(date, state.lat, state.lon, p.au)
\* (part_001 637)
OverlayTarget(key, day) == nextPlanetTarget(Lg(PLANETS[key]), "", day)

\* the target of nextPlanetTime(date, lat, lon, p.au, p.key)  (part_001 434)
PanelTarget(key, day) == nextPlanetTarget(Lg(PLANETS[key]), key, day)

\* selectPlanet(p, el): without a location it alerts and returns; otherwise
\* it fills the overlay and ends with updatePanelsForSelection(p)
\* (part_001 629-786)
SelectPlanet ==
    /\ selPc = "select"
    /\ IF stateLat = <<>> \/ stateLon = <<>>
       THEN /\ selPc' = "alert"
            /\ UNCHANGED <<selOverlay, selPanel>>
       ELSE /\ selOverlay' = OverlayTarget(selPlanet, selDay)
            /\ selPanel' = PanelTarget(selPlanet, selDay)
            /\ selPc' = "done"
    /\ UNCHANGED <<selPlanet, selDay, nxtVars, geoVars,
                   scanVars, sunVars, orbVars, calcVars>>

SelNext == SelectPlanet

\* ================================================= location and countries
\* The location part of app.js: state.lat, state.lon, state.place, the
\* reverse-geocode requests, the country list and the country picker.  Every
\* callback and every continuation after an await runs to completion before
\* the next one starts; the actions below are those callbacks.

\* lat = 52.2297, lon = 21.0122, in millidegrees (part_001 900-901)
DefaultLat == 52230
DefaultLon == 21012

\* positions the Geolocation API may report, and coordinates the user may
\* type into #latInput and #lonInput
Positions == {<<48857, 2352>>, <<35690, 139692>>}
TypedCoords == {<<0, 0>>, <<35000, 139000>>}

\* what a.country may hold in a Nominatim response: no country, a name of
\* both lists, a name of the fetched list only, a name of neither
GeoCountryNames == {"", "Poland", "France", "Polska"}

\* the list built from countries.json: name and latlng (part_001 939-952)
RemoteCountries ==
    [n \in {"France", "Japan", "Poland"} |->
        CASE n = "France" -> [lat |-> 46000, lon |-> 2000]
          [] n = "Japan"  -> [lat |-> 36000, lon |-> 138000]
          [] n = "Poland" -> [lat |-> 52000, lon |-> 20000]]

\* the minimal built-in list (part_001 966-973)
FallbackCountries ==
    [n \in {"United States", "Poland", "United Kingdom", "India",
            "Australia", "Japan"} |->
        CASE n = "United States"  -> [lat |-> 39784, lon |-> 0 - 100446]
          [] n = "Poland"         -> [lat |-> 52237, lon |-> 21017]
          [] n = "United Kingdom" -> [lat |-> 54702, lon |-> 0 - 3277]
          [] n = "India"          -> [lat |-> 22351, lon |-> 78668]
          [] n = "Australia"      -> [lat |-> 0 - 24776, lon |-> 134755]
          [] n = "Japan"          -> [lat |-> 36575, lon |-> 139239]]

\* new Map(): no entries
NoCountries == [n \in {} |-> [lat |-> 0, lon |-> 0]]

\* reverseGeocode calls made in one page lifetime of the model
MaxGeocodes == 3

\* country || null
OrNull(name) == IF name = "" THEN <<>> ELSE <<name>>

Location == [lat |-> stateLat, lon |-> stateLon, place |-> statePlace]

\* applyCountrySelection(name, opts): the state it leaves in lat, lon, place
\* (part_001 1006-1013); opts only selects what is redrawn
applyCountrySelection(name, byName, loc) ==
    IF name = "" THEN loc
    ELSE IF name \notin DOMAIN byName THEN loc
    ELSE [lat |-> <<byName[name].lat>>, lon |-> <<byName[name].lon>>,
          place |-> <<name>>]

\* !state.countryAutoAppliedOnce
Reapplies(applied) == TRUE
NotYetApplied(applied) == ~applied

\* the test before the silent applyCountrySelection (part_001 131-136,
\* 956-958, 979-981)
AutoApplies(pending, applied, byName) ==
    /\ pending # <<>>
    /\ NotYetApplied(applied)
    /\ pending[1] \in DOMAIN byName

\* the silent auto-apply, or nothing, on top of the location loc
AutoApply(pending, byName, loc) ==
    IF AutoApplies(pending, countryAutoAppliedOnce, byName)
    THEN /\ countryAutoAppliedOnce' = TRUE
         /\ autoApplyRuns' = autoApplyRuns + 1
         /\ LET l == applyCountrySelection(pending[1], byName, loc)
            IN  stateLat' = l.lat /\ stateLon' = l.lon /\ statePlace' = l.place
    ELSE /\ stateLat' = loc.lat /\ stateLon' = loc.lon /\ statePlace' = loc.place
         /\ UNCHANGED <<countryAutoAppliedOnce, autoApplyRuns>>

GeoRest == <<nxtVars, selVars, scanVars, sunVars, orbVars, calcVars>>

\* state.lat = ...; state.lon = ...; reverseGeocode(lat, lon)
SetCoordinates(c) ==
    /\ geoStarted < MaxGeocodes
    /\ stateLat' = <<c[1]>> /\ stateLon' = <<c[2]>>
    /\ geoStarted' = geoStarted + 1
    /\ geoInFlight' = geoInFlight + 1
    /\ manualPick' = <<>>

\* init's getCurrentPosition succeeds (part_001 884-896)
GeolocationSuccess ==
    /\ locPc = "asking"
    /\ \E c \in Positions : SetCoordinates(c)
    /\ locPc' = "done"
    /\ UNCHANGED <<statePlace, pendingCountryName, countryAutoAppliedOnce,
                   countryByName, fetchPc, autoApplyRuns, GeoRest>>

\* init's getCurrentPosition fails: the default location (part_001 897-908;
\* the same statements run at once where there is no Geolocation API, 909-921)
GeolocationError ==
    /\ locPc = "asking"
    /\ SetCoordinates(<<DefaultLat, DefaultLon>>)
    /\ locPc' = "done"
    /\ UNCHANGED <<statePlace, pendingCountryName, countryAutoAppliedOnce,
                   countryByName, fetchPc, autoApplyRuns, GeoRest>>

\* #detectLocationBtn: the success callback (part_001 791-800)
DetectLocation ==
    /\ locPc # "idle"
    /\ \E c \in Positions : SetCoordinates(c)
    /\ UNCHANGED <<statePlace, pendingCountryName, countryAutoAppliedOnce,
                   countryByName, fetchPc, locPc, autoApplyRuns, GeoRest>>

\* #applyLocationBtn with finite inputs (part_001 808-818)
ApplyLocation ==
    /\ locPc # "idle"
    /\ \E c \in TypedCoords : SetCoordinates(c)
    /\ statePlace' = <<>>
    /\ UNCHANGED <<pendingCountryName, countryAutoAppliedOnce,
                   countryByName, fetchPc, locPc, autoApplyRuns, GeoRest>>

\* reverseGeocode after its awaits, response ok (part_001 124-139)
ReverseGeocodeDone ==
    /\ geoInFlight > 0
    /\ geoInFlight' = geoInFlight - 1
    /\ \E country \in GeoCountryNames :
          /\ pendingCountryName' = OrNull(country)
          /\ AutoApply(OrNull(country), countryByName,
                       [Location EXCEPT !.place = OrNull(country)])
    /\ UNCHANGED <<countryByName, fetchPc, locPc, geoStarted, manualPick,
                   GeoRest>>

\* reverseGeocode: fetch rejects or !res.ok, caught (part_001 123, 140-142)
ReverseGeocodeFailed ==
    /\ geoInFlight > 0
    /\ geoInFlight' = geoInFlight - 1
    /\ UNCHANGED <<stateLat, stateLon, statePlace, pendingCountryName,
                   countryAutoAppliedOnce, countryByName, fetchPc, locPc,
                   geoStarted, autoApplyRuns, manualPick, GeoRest>>

\* what fetchCountriesOnce does once it has a list (part_001 953-963, 974-984)
CountriesLoaded(list) ==
    /\ fetchPc' = "done"
    /\ countryByName' = list
    /\ AutoApply(pendingCountryName, list, Location)
    /\ UNCHANGED <<pendingCountryName, locPc, geoInFlight, geoStarted,
                   manualPick, GeoRest>>

\* fetchCountriesOnce: countries.json arrived (part_001 933-963)
FetchCountriesDone ==
    /\ fetchPc = "pending"
    /\ CountriesLoaded(RemoteCountries)

\* fetchCountriesOnce: the catch branch (part_001 964-985)
FetchCountriesFailed ==
    /\ fetchPc = "pending"
    /\ CountriesLoaded(FallbackCountries)

\* a country clicked or entered: applyCountrySelection(name, { visual: true });
\* the handlers are attached after await fetchCountriesOnce()
\* (part_001 1105, 1159, 1216, 1224)
PickCountry ==
    /\ fetchPc = "done"
    /\ \E name \in DOMAIN countryByName :
          /\ LET l == applyCountrySelection(name, countryByName, Location)
             IN  stateLat' = l.lat /\ stateLon' = l.lon /\ statePlace' = l.place
          /\ manualPick' = <<name>>
    /\ UNCHANGED <<pendingCountryName, countryAutoAppliedOnce, countryByName,
                   fetchPc, locPc, geoInFlight, geoStarted, autoApplyRuns,
                   GeoRest>>

GeoNext ==
    \/ GeolocationSuccess
    \/ GeolocationError
    \/ DetectLocation
    \/ ApplyLocation
    \/ ReverseGeocodeDone
    \/ ReverseGeocodeFailed
    \/ FetchCountriesDone
    \/ FetchCountriesFailed
    \/ PickCountry

\* the fields of state as constructed (part_001 42-55)
StateAsConstructed ==
    /\ stateLat = <<>> /\ stateLon = <<>> /\ statePlace = <<>>
    /\ pendingCountryName = <<>>
    /\ countryAutoAppliedOnce = FALSE
    /\ countryByName = NoCountries
    /\ geoInFlight = 0 /\ geoStarted = 0
    /\ autoApplyRuns = 0
    /\ manualPick = <<>>

\* after init(): the position was asked for and the country list is being
\* fetched (part_001 883-923)
GeoStart ==
    /\ StateAsConstructed
    /\ locPc = "asking"
    /\ fetchPc = "pending"

\* after init() and the error callback of getCurrentPosition: the default
\* location, its reverseGeocode call on the way (part_001 897-908)
GeoDefault ==
    /\ stateLat = <<DefaultLat>> /\ stateLon = <<DefaultLon>>
    /\ statePlace = <<>>
    /\ pendingCountryName = <<>>
    /\ countryAutoAppliedOnce = FALSE
    /\ countryByName = NoCountries
    /\ geoInFlight = 1 /\ geoStarted = 1
    /\ autoApplyRuns = 0
    /\ manualPick = <<>>
    /\ locPc = "done"
    /\ fetchPc = "pending"

GeoIdle ==
    /\ StateAsConstructed
    /\ locPc = "idle"
    /\ fetchPc = "idle"

AppIdle == NextIdle /\ SelIdle /\ GeoIdle

\* ========================================================== specifications
ScanInit == ScanStart /\ SunIdle /\ OrbitIdle /\ TargetIdle /\ LuxIdle
    /\ AppIdle

SpecScan == ScanInit /\ [][ScanNext]_vars

FullInit == FullStart /\ SunIdle /\ OrbitIdle /\ TargetIdle /\ LuxIdle
    /\ AppIdle

SpecFull == FullInit /\ [][ScanNext]_vars

SunInit == SunStart /\ ScanIdle /\ OrbitIdle /\ TargetIdle /\ LuxIdle
    /\ AppIdle

SunNext == SunTimesCall

SpecSun == SunInit /\ [][SunNext]_vars

OrbitInit == OrbitStart /\ ScanIdle /\ SunIdle /\ TargetIdle /\ LuxIdle
    /\ AppIdle

SpecOrbit == OrbitInit /\ [][OrbitNext]_vars

TargetInit == TargetStart /\ ScanIdle /\ SunIdle /\ OrbitIdle /\ LuxIdle
    /\ AppIdle

SpecTarget == TargetInit /\ [][TargetNext]_vars

LuxInit == LuxStart /\ ScanIdle /\ SunIdle /\ OrbitIdle /\ TargetIdle
    /\ AppIdle

SpecLux == LuxInit /\ [][LuxNext]_vars

CoreIdle == ScanIdle /\ SunIdle /\ OrbitIdle /\ TargetIdle /\ LuxIdle

NextInit == NextStart /\ SelIdle /\ GeoIdle /\ CoreIdle

SpecNext == NextInit /\ [][NextTimeNext]_vars

\* a planet is clicked before or after the location is known
SelInit == SelStart /\ (GeoStart \/ GeoDefault) /\ NextIdle /\ CoreIdle

SpecSelect == SelInit /\ [][SelNext]_vars

GeoInit == GeoStart /\ NextIdle /\ SelIdle /\ CoreIdle

SpecGeo == GeoInit /\ [][GeoNext]_vars

\* =================================================================== claims
\* -------------------------------------- samples recomputed from the day
\* The samples the scan has taken so far, read back from the value function.
Sampled(m) == Key(finder, m * MsPerMinute) \in DOMAIN f

SampleAt(m) == f[Key(finder, m * MsPerMinute)]

\* Minute m (with a predecessor) is a sign change of the sampled differences:
\* the sample is exactly 0, or it disagrees with the one before on "> 0".
SignChange(m) ==
    /\ Sampled(m)
    /\ \/ SampleAt(m) = "zero"
       \/ (SampleAt(m) = "pos") # (SampleAt(m - 1) = "pos")

SignChanges == {m \in 1 .. MinutesPerDay : SignChange(m)}

\* The k-th sign change of the day, in time order.
KthSignChange(k) ==
    CHOOSE m \in SignChanges : Cardinality({n \in SignChanges : n < m}) = k - 1

ApparentDone == pc = "done" /\ finder = "apparent"

\* C1: findApparentAltitudeCrossings returns at most two Instants, whatever
\* the sampled differences are.
C1_AtMostTwo == ApparentDone => Len(returned) <= 2

C4_NoChangeEmpty ==
    (ApparentDone /\ SignChanges = {}) => returned = <<>>

\* A whole day of NaN samples, scanned to the end.
C4_Witness ==
    /\ ApparentDone
    /\ \A m \in 0 .. MinutesPerDay : Sampled(m) /\ SampleAt(m) = "nan"
    /\ returned = <<>>

\* The day's maximum equals the target (tangentAt), the scan has returned.
TangentDone == ApparentDone /\ tangentAt # NoTangent

SunArg ==
    hourAngleArg(0 - 833, sunIn.lat,
                 declination(eclipticLongitude(
                     solarMeanAnomaly(toDays(noonLocal(sunIn.day, sunIn.tz))))))

SunDone == sunPc = "done"

\* |argument| > 1
SunArgOutside == LET arg == SunArg IN arg > TrigScale \/ arg < 0 - TrigScale

\* C6: when the hour-angle arccos argument is outside [-1, 1], sunTimes
\* returns sunrise = sunset = solarNoon = null, daylight = 0 and exactly one
\* of alwaysUp, alwaysDown.
C6_PolarResult ==
    (SunDone /\ SunArgOutside) =>
        /\ sunOut.sunrise = <<>>
        /\ sunOut.sunset = <<>>
        /\ sunOut.solarNoon = <<>>
        /\ sunOut.daylight = 0
        /\ sunOut.alwaysUp # sunOut.alwaysDown

\* A polar night: the argument is above 1 and alwaysDown is reported.
C6_Witness ==
    /\ SunDone
    /\ SunArg > TrigScale
    /\ sunOut.alwaysDown
    /\ sunOut.sunrise = <<>>

SunNonPolar == SunDone /\ sunOut.sunrise # <<>>

\* the three Dates of the result are valid Dates
SunDatesValid ==
    /\ sunOut.sunrise # InvalidDate
    /\ sunOut.solarNoon # InvalidDate
    /\ sunOut.sunset # InvalidDate

\* C8: for every non-polar result of sunTimes sunrise and sunset are
\* symmetric around solarNoon within one minute: |(solarNoon - sunrise) -
\* (sunset - solarNoon)| <= 60 seconds, which is false of the difference NaN
\* of an Invalid Date.
C8_Symmetric ==
    SunNonPolar =>
        /\ SunDatesValid
        /\ LET am == sunOut.solarNoon[1] - sunOut.sunrise[1]
               pm == sunOut.sunset[1] - sunOut.solarNoon[1]
           IN  am - pm <= 60000 /\ pm - am <= 60000

SunEquinoxEquator == SunDone /\ sunIn.day = 8845 /\ sunIn.lat = 0

\* C9 as stated: on 2024-03-20 at latitude 0 the daylight length is within
\* 0.1 hour of 12 hours.
C9_EquinoxTwelveHours ==
    SunEquinoxEquator =>
        /\ sunOut.daylight - 12 * 3600000 <= 360000
        /\ 12 * 3600000 - sunOut.daylight <= 360000

\* C9 amended: the daylight length for the -0.833 degree altitude is about
\* 12.11 hours: more than 0.1 hour and at most 0.12 hour above 12 hours.
C9_EquinoxTwelvePointOne ==
    SunEquinoxEquator =>
        /\ sunOut.daylight - 12 * 3600000 > 360000
        /\ sunOut.daylight - 12 * 3600000 <= 432000

C9_Witness ==
    /\ SunEquinoxEquator
    /\ sunOut.sunrise # <<>>
    /\ sunOut.daylight > 12 * 3600000

\* ------------------------------------------------- heliocentricDistanceAU
\* C10: a key that is not one of the nine catalog planets yields null and
\* solveKeplerE is not run; a catalog key yields a number.
C10_UnknownKeyNull ==
    orbPc = "done" =>
        IF orbKey \in {"mercury", "venus", "earth", "mars", "jupiter",
                       "saturn", "uranus", "neptune", "pluto"}
        THEN orbOut # <<>>
        ELSE orbOut = <<>> /\ ~orbSolved /\ orbI = 0

\* ------------------------------------------------------------ Kepler solver
\* C16: solveKeplerE runs at most 12 Newton iterations; every iteration
\* applies its correction dE to E, and the loop is left after the first
\* iteration whose correction is smaller than the tolerance, or after the
\* twelfth.
C16_KeplerIterations ==
    /\ [](orbI <= 12 /\ (orbPc = "kepler" => orbI < 12))
    /\ [][orbPc = "kepler" =>
            LET dE == KeplerDelta(orbE, orbEcc, orbM) IN
            /\ orbI' = orbI + 1
            /\ orbE' = DAdd(orbE, dE)
            /\ (orbPc' = "return")
                 <=> (DLt(DAbs(dE), Dec(1, 0, 1, 10)) \/ orbI' = 12)
            /\ orbPc' \in {"return", "kepler"}]_vars

\* The solver left the loop early, on an iteration whose correction is not
\* lost in the rounding of E.
C16_Witness ==
    /\ orbPc = "return"
    /\ orbI > 1 /\ orbI < 12
    /\ orbE.k = "num" /\ orbDE.k = "num"
    /\ DSub(orbE, orbDE) # orbE

\* C17: for every catalog planet and instant the distance returned is
\* positive and differs from the semi-major axis a by at most |e| * a,
\* e = e0 + eRate * d (up to a rounding of one part in 10^12).
C17_EccentricityBound ==
    (orbPc = "done" /\ orbKey \in CatalogKeys) =>
        LET a  == ORBITS[orbKey].a
            e  == DAdd(ORBITS[orbKey].e0,
                       DMul(ORBITS[orbKey].eRate, DInt(orbDay)))
            ea == DMul(DAbs(e), a)
        IN  /\ orbOut # <<>>
            /\ orbOut[1].k = "num"
            /\ DLt(DZero, orbOut[1])
            /\ ~DLt(DAdd(ea, DMul(a, Dec(1, 0, 1, 12))),
                    DAbs(DSub(orbOut[1], a)))

\* ---------------------------------------------------------- target altitude
TargetDone(fn) == tgtPc = "done" /\ tgtFn = fn

\* the key the function looks up and that the lookup reports not found
NotFoundKey ==
    CASE tgtFn = "targetElevationForPlanetKey" -> tgtKey
      [] tgtFn = "targetApparentAltitudeForPlanetKey" -> ToLowerCase(tgtKey)
      [] OTHER -> "earth"

LookupNotFound ==
    /\ tgtPc = "done"
    /\ \/ tgtFn = "targetElevationForPlanetKey"
       \/ /\ tgtFn = "targetApparentAltitudeForPlanetKey"
          /\ tgtKey # "" /\ ToLowerCase(tgtKey) # "earth"
    /\ heliocentricDistanceAU(NotFoundKey, tgtDay) = <<>>

\* C11: when the distance lookup reports not-found for the key, the
\* target-altitude functions return a target (the query does not fail) and
\* that target is the one of the key's mean distance in the catalog PLANETS.
C11_MeanDistanceFallback ==
    LookupNotFound =>
        /\ tgtOut # <<>>
        /\ NotFoundKey \in DOMAIN PLANETS
        /\ tgtOut[1] =
             IF tgtFn = "targetElevationForPlanetKey"
             THEN targetElevationForPlanet(Lg(PLANETS[NotFoundKey]))
             ELSE ClampApparent(H_PLUTO
                    + Delta(Lg(PLANETS[NotFoundKey]), PlutoDistance(tgtDay)))

\* C12: targetElevationForPlanet(39.48) is exactly -1.5 degrees.
C12_PlutoAnchor ==
    (TargetDone("targetElevationForPlanet") /\ tgtAu = Lg(394800))
        => tgtOut = <<0 - 1500>>

C12_Witness ==
    /\ TargetDone("targetElevationForPlanet")
    /\ tgtAu = Lg(394800)
    /\ tgtOut # <<>>
    /\ tgtOut[1] < 0 /\ tgtOut[1] > 0 - 12 * MdegPerDeg

\* C13: every target altitude produced for a planet lies between -18 and 30
\* degrees: the one targetElevationForPlanet returns for a positive finite
\* distance and the one nextPlanetTime passes to the crossing search for a
\* catalog planet at any instant.
C13_TargetRange ==
    (/\ tgtPc = "done"
     /\ tgtFn \in {"targetElevationForPlanet", "nextPlanetTime"}
     /\ tgtOut # <<>>)
        => /\ tgtOut[1] >= 0 - 18 * MdegPerDeg
           /\ tgtOut[1] <= 30 * MdegPerDeg

\* -------------------------------------------------------- illuminance model
\* the altitude went through both functions
LuxDone == luxPc = "done" /\ luxAlt # <<>>

\* the altitude h in degrees
LuxDeg == DMul(luxAlt[1], deg)

\* h in (-6, 90) degrees, the seam at 0 excluded
LuxInClaim ==
    /\ DLt(DInt(0 - 6), LuxDeg)
    /\ DLt(LuxDeg, DInt(90))
    /\ ~IsZeroD(LuxDeg)

\* the numerical tolerance of the round trip: 0.00001 degrees
AltTol == Dec(1, 0, 1, 5)

\* h comes back within the tolerance, from the branch that produced the
\* illuminance: below the horizon exactly when h is
LuxRoundTrip ==
    /\ luxOut # <<>>
    /\ DLt(DAbs(DSub(luxOut[1], LuxDeg)), AltTol)
    /\ DLt(luxOut[1], DZero) <=> DLt(LuxDeg, DZero)

\* the illuminance is on the side of 400 lux that the branch of h inverts:
\* below it for a negative h, not below it for a positive h
LuxOnItsSide == DLt(luxE[1], TWILIGHT_H0_LUX) <=> DLt(LuxDeg, DZero)

\* C14 as stated: for every h in (-6, 90) degrees except 0,
\* illuminanceToAltitudeDeg(earthIlluminanceLuxFromAltRad(h)) = h within
\* numerical tolerance, the inverse selecting the branch that produced the
\* illuminance.
C14_RoundTrip == (LuxDone /\ LuxInClaim) => LuxRoundTrip

\* C14 amended: the round trip holds, within 0.00001 degrees and through the
\* same branch, for the h in (-6, 0) whose illuminance is below 400 lux and
\* for the h in (0, 90) whose illuminance is at least 400 lux.  The other h
\* come back from the other branch, on the other side of the horizon: a
\* negative h with exactly 400 lux as more than half a degree, a positive h
\* with less than 400 lux as a negative altitude.
C14_RoundTripOffSeam ==
    (LuxDone /\ LuxInClaim) =>
        IF LuxOnItsSide THEN LuxRoundTrip
        ELSE /\ luxOut # <<>>
             /\ DLt(LuxDeg, DZero) => DLt(Dec(1, 0, 5, 1), luxOut[1])
             /\ DLt(DZero, LuxDeg) => DLt(luxOut[1], DZero)

\* A daytime altitude above the seam, inverted by the daytime branch.
C14_Witness ==
    /\ LuxDone
    /\ luxAlt = <<DMul(DInt(30), rad)>>
    /\ DLt(TWILIGHT_H0_LUX, luxE[1])
    /\ LuxRoundTrip

\* ------------------------------------------ the scan of the apparent finder
\* Minute m's crossing was found by bisection: its sample is not 0 and
\* disagrees with the sample before on "> 0".
BisectedAt(m) ==
    /\ Sampled(m)
    /\ SampleAt(m) # "zero"
    /\ (SampleAt(m) = "pos") # (SampleAt(m - 1) = "pos")

\* The minutes of the bisected crossings of a finished scan.
BisectedMinutes == {m \in 1 .. MinutesPerDay : BisectedAt(m)}

\* The offsets are evaluated in increasing order: the offsets evaluated so far
\* are those below the loop counter, and the counter's own while its crossing
\* is being bisected or the scan was left at it.  A scan that ran to the end
\* has evaluated all MinutesPerDay + 1 offsets.
SamplesInOrder ==
    finder = "apparent" =>
        \A m \in 0 .. MinutesPerDay :
            Sampled(m) <=> (m < minutes \/ (m = minutes /\ pc # "scan"))

\* A non-negative count of the steps the scan can still take.
ScanMeasure ==
    IF pc = "done" THEN 0
    ELSE 1 + (MinutesPerDay + 1 - minutes) * (Iters(finder) + 3)
           + (IF pc = "bisect" THEN Iters(finder) + 1 - iter
              ELSE Iters(finder) + 2)

\* The scan left before the last offset.
EarlyExit == ApparentDone /\ minutes <= MinutesPerDay

\* The last result is an exact hit with no bisected crossing after it.
LastIsDirectHit ==
    \E m \in 1 .. minutes - 1 :
        /\ SampleAt(m) = "zero"
        /\ result[Len(result)] = m * MsPerMinute
        /\ \A n \in m + 1 .. minutes - 1 : ~BisectedAt(n)

\* The scan is left early exactly by a bisected crossing that brings the
\* results to two or more.
ExitAsCoded ==
    /\ EarlyExit => Len(returned) >= 2 /\ BisectedAt(minutes)
    /\ (finder = "apparent" /\ pc = "scan" /\ Len(result) >= 2)
          => LastIsDirectHit

\* The scan is left early only once two bisected crossings are recorded.
ExitAsStated == EarlyExit => Cardinality(BisectedMinutes) >= 2

\* Order of the samples, offsets of the crossings, termination.
ScanRuns ==
    /\ [](SamplesInOrder /\ ScanMeasure >= 0)
    /\ [](pc # "done" => ENABLED ScanNext)
    /\ [][finder = "apparent" =>
            /\ ScanMeasure' < ScanMeasure
            /\ result' # result => minutes \in 1 .. MinutesPerDay]_vars

\* C18 as stated: findApparentAltitudeCrossings evaluates the offsets
\* 0 .. 1440 in increasing order, reports a crossing only at offsets
\* 1 .. 1440, and always terminates, after offset 1440 or earlier once a
\* second bisected crossing has been recorded.
C18_ExitAfterSecondBisected == ScanRuns /\ []ExitAsStated

\* C18 amended: the same, but the scan is left early by the bisected crossing
\* that brings the recorded results to two or more, which is the first
\* bisected crossing when an exact hit was recorded before it.
C18_ExitAtTwoResults == ScanRuns /\ []ExitAsCoded

\* An exact hit, then one bisected crossing: the scan is left at it.
C18_Witness ==
    /\ EarlyExit
    /\ Len(returned) = 2
    /\ Cardinality(BisectedMinutes) = 1
    /\ SampleAt(minutes - 1) = "zero"

\* ------------------------------------------------------------ the bracket
\* The "> 0" status of the value at instant t, read from the value function.
StatusAt(t) == f[Key(finder, t)] = "pos"

TenthSecond == FullMsPerSecond \div 10

\* The value changes "> 0" status at instant x: x and the millisecond before
\* it read different signs (the apparent finder reads whole seconds).
ChangesAt(x) ==
    /\ x >= 1
    /\ SignAt(Key(finder, x)) # SignAt(Key(finder, x - 1))

TakenSample == f'[Key(finder, minutes * MinuteMs)]

\* C21: a sample other than the first whose difference is exactly 0 records
\* the sample's own Instant and starts no bisection; any other sample starts
\* a bisection exactly when it has a predecessor and (current > 0) differs
\* from (previous > 0), and records nothing itself.
C21_ZeroIsDirectHit ==
    [][(pc = "scan" /\ minutes <= MinutesPerDay) =>
          IF minutes >= 1 /\ TakenSample = "zero"
          THEN /\ result' = Append(result, minutes * MinuteMs)
               /\ pc' = "scan"
          ELSE /\ result' = result
               /\ (pc' = "bisect") <=>
                     /\ minutes >= 1
                     /\ (TakenSample = "pos") # (SampleAt(minutes - 1) = "pos")]_vars

\* An exact hit at a sample whose predecessor was positive, recorded as the
\* sample's own Instant while the scan goes on.
C21_Witness ==
    /\ pc = "scan"
    /\ minutes = 3
    /\ SampleAt(1) = "pos"
    /\ SampleAt(2) = "zero"
    /\ result = <<2 * MinuteMs>>

\* --------------------------------------------------------------- passages
\* The value passes through the target at sample m: not 0 before, exactly 0
\* at m, not 0 after, going up or going down.
PassageUp(m) ==
    /\ Sampled(m + 1)
    /\ SampleAt(m - 1) = "neg" /\ SampleAt(m) = "zero" /\ SampleAt(m + 1) = "pos"

PassageDown(m) ==
    /\ Sampled(m + 1)
    /\ SampleAt(m - 1) = "pos" /\ SampleAt(m) = "zero" /\ SampleAt(m + 1) = "neg"

\* The returned Instants that lie in the two minutes around sample m.
ReturnedAround(m) ==
    {k \in 1 .. Len(returned) :
        /\ (m - 1) * MsPerMinute < returned[k]
        /\ returned[k] <= (m + 1) * MsPerMinute}

\* C22: a passage of the value through the target with an exact 0 on a
\* sample, upward or downward, contributes exactly one Instant to the result
\* of findApparentAltitudeCrossings.
C22_PassageReportedOnce ==
    ApparentDone =>
        \A m \in 1 .. MinutesPerDay - 1 :
            (PassageUp(m) \/ PassageDown(m)) =>
                Cardinality(ReturnedAround(m)) = 1

\* ------------------------------------------------------- the three finders
\* C23: the three finders are the same function of the sampled differences:
\* each returns the first two sign changes of the samples (or the only one,
\* or none), the k-th Instant from the k-th sign change: the sample itself on
\* an exact 0, an Instant of the minute ending at the sample otherwise.
C23_SameScan ==
    pc = "done" =>
        /\ Len(returned) = Min(2, Cardinality(SignChanges))
        /\ \A k \in 1 .. Len(returned) :
              LET m == KthSignChange(k) IN
              /\ (m - 1) * MsPerMinute <= returned[k]
              /\ returned[k] <= m * MsPerMinute
              /\ SampleAt(m) = "zero" => returned[k] = m * MsPerMinute

\* --------------------------------------------------------------- DayTimes
\* 24 hours, in milliseconds
DayLengthMs == 24 * 3600000

\* C24: every result of sunTimes is a well-formed DayTimes: alwaysUp and
\* alwaysDown are not both true; sunrise, solarNoon and sunset are all null
\* or all Instants, and null exactly when alwaysUp or alwaysDown; when
\* Instants, sunrise <= solarNoon <= sunset and daylight is sunset - sunrise,
\* between 0 and 24 hours.  An Invalid Date is no Instant, and NaN is
\* neither a difference of Instants nor within 0 and 24 hours.
C24_WellFormed ==
    SunDone =>
        /\ ~(sunOut.alwaysUp /\ sunOut.alwaysDown)
        /\ (sunOut.sunrise = <<>>) = (sunOut.solarNoon = <<>>)
        /\ (sunOut.sunset = <<>>) = (sunOut.solarNoon = <<>>)
        /\ (sunOut.solarNoon = <<>>) = (sunOut.alwaysUp \/ sunOut.alwaysDown)
        /\ sunOut.solarNoon # <<>> =>
              /\ SunDatesValid
              /\ sunOut.sunrise[1] <= sunOut.solarNoon[1]
              /\ sunOut.solarNoon[1] <= sunOut.sunset[1]
              /\ ~IsNaN(sunOut.daylight)
              /\ sunOut.daylight = sunOut.sunset[1] - sunOut.sunrise[1]
              /\ 0 <= sunOut.daylight
              /\ sunOut.daylight <= DayLengthMs

\* ---------------------------------------------------------------- the seam
\* earthIlluminanceLuxFromAltRad has returned
LuxComputed == luxPc \in {"lux", "done"} /\ luxAlt # <<>>

\* 0 at altitude exactly 0, and in [0, 120000] for the altitudes in [0, 90]
LuxDaytimeRange ==
    /\ IsZeroD(LuxDeg) => IsZeroD(luxE[1])
    /\ (~DLt(LuxDeg, DZero) /\ ~DLt(DInt(90), LuxDeg)) =>
          /\ ~DLt(luxE[1], DZero)
          /\ ~DLt(NoonLux, luxE[1])

\* C25 as stated: the illuminance is 0 at altitude exactly 0, in [0, 120000]
\* for the altitudes in [0, 90] degrees (the daytime formula), and strictly
\* between 0 and 400 lux for every negative altitude (the twilight formula).
C25_Seam ==
    LuxComputed =>
        /\ LuxDaytimeRange
        /\ DLt(LuxDeg, DZero) =>
              /\ DLt(DZero, luxE[1])
              /\ DLt(luxE[1], TWILIGHT_H0_LUX)

\* the least x for which Math.exp(x) is 1: -2^-54
ExpIsOneFrom == Num(0 - 1, NShl(<<1>>, 52), 0 - 106)

\* C25 amended: the illuminance is 0 at altitude exactly 0, in [0, 120000]
\* for the altitudes in [0, 90] degrees, and in (0, 400] for the negative
\* altitudes, from -90 degrees up: exactly 400 lux when altDeg / 1.257 is
\* -2^-54 or above, which Math.exp takes to 1 (the altitudes above about
\* -6.98e-17 degrees), and below 400 lux otherwise.
C25_SeamRounded ==
    LuxComputed =>
        /\ LuxDaytimeRange
        /\ (DLt(LuxDeg, DZero) /\ ~DLt(LuxDeg, DInt(0 - 90))) =>
              /\ DLt(DZero, luxE[1])
              /\ luxE[1] = TWILIGHT_H0_LUX
                   <=> ~DLt(DDiv(LuxDeg, TWILIGHT_DECAY_DEG), ExpIsOneFrom)
              /\ luxE[1] # TWILIGHT_H0_LUX => DLt(luxE[1], TWILIGHT_H0_LUX)

\* Just below the horizon, where Math.exp gives less than 1: less than 400
\* lux, and within a millionth of it.
C25_Witness ==
    /\ LuxComputed
    /\ luxAlt = <<DMul(Dec(0 - 1, 0, 1, 10), rad)>>
    /\ DLt(luxE[1], TWILIGHT_H0_LUX)
    /\ DLt(Dec(1, 0, 399999999, 6), luxE[1])

\* ---------------------------------------------------------- nextPlanetTime
NextDone == nxtPc = "done"

\* The first day after the query day that has crossings, if any.
LaterDays == {d \in 1 .. SearchDays - 1 : nxtCross[d] # <<>>}

\* C26: for a target altitude <= 0 and a query day with crossings,
\* nextPlanetTime returns the morning crossing if now is before it, otherwise
\* the evening crossing if there is one and now is before it, otherwise the
\* morning crossing of the next of the days searched that has crossings.
C26_MorningEveningNext ==
    (NextDone /\ nxtTarget # <<>> /\ nxtTarget[1] <= 0 /\ nxtCross[0] # <<>>) =>
        LET today == nxtCross[0] IN
        IF nxtNow < today[1] THEN nxtOut = <<today[1]>>
        ELSE IF Len(today) >= 2 /\ nxtNow < today[2] THEN nxtOut = <<today[2]>>
        ELSE \A d \in LaterDays :
                (\A e \in LaterDays : d <= e) => nxtOut = <<nxtCross[d][1]>>

\* Now is after both crossings of the query day and the day after has none:
\* the morning crossing of the third day is returned.
C26_Witness ==
    /\ NextDone
    /\ nxtTarget = <<H_PLUTO>>
    /\ Len(nxtCross[0]) = 2 /\ nxtNow > nxtCross[0][2]
    /\ nxtCross[1] = <<>> /\ nxtCross[2] # <<>>
    /\ nxtOut = <<nxtCross[2][1]>>

\* The query day is today's civil day: now lies between its two midnights.
QueryIsToday == MidnightOf(0) <= nxtNow /\ nxtNow < MidnightOf(1)

\* C27: when the query day is today, nextPlanetTime returns null or an
\* Instant strictly later than now.
C27_StrictlyLater ==
    (NextDone /\ QueryIsToday) => (nxtOut = <<>> \/ nxtOut[1] > nxtNow)

\* ------------------------------------------------------ overlay and panels
\* C28: for one selected planet and date, the call of nextPlanetTime made by
\* selectPlanet (overlay) and the one made by updatePanelsForSelection
\* (countdown) search for the same target altitude.
C28_SameTarget == selPc = "done" => selOverlay = selPanel

\* the last country a reverse-geocode response named is in the loaded list
PendingIsListed ==
    /\ fetchPc = "done"
    /\ pendingCountryName # <<>>
    /\ pendingCountryName[1] \in DOMAIN countryByName

\* C29: under every interleaving of reverse-geocode responses and the end of
\* the country-list fetch, the silent applyCountrySelection is called at most
\* once, and it has been called once whenever the list is loaded (fetched or
\* fallback) and the country of the latest response is in it.
C29_AutoApplyOnce ==
    /\ autoApplyRuns <= 1
    /\ PendingIsListed => autoApplyRuns = 1

\* every reverse-geocode call of the page has been answered, the list is
\* loaded, the latest country is listed and the auto-apply ran
C29_Witness ==
    /\ geoStarted = MaxGeocodes
    /\ geoInFlight = 0
    /\ PendingIsListed
    /\ countryAutoAppliedOnce
    /\ autoApplyRuns = 1

\* C30: while a country picked by the user is the last location the user
\* gave, state.lat, state.lon and state.place are that country's: no
\* reverse-geocode response and no country-list load changes them.
C30_ManualPickKept ==
    manualPick # <<>> =>
        /\ statePlace = manualPick
        /\ stateLat = <<countryByName[manualPick[1]].lat>>
        /\ stateLon = <<countryByName[manualPick[1]].lon>>

====
